---- MODULE Spec2Model ----
(***************************************************************************)
(* Model of the prefetch pipeline of pgxn/neon/pagestore_smgr.c: the ring  *)
(* of PrefetchRequest slots, its hash index, the request-LSN oracle and    *)
(* the read / prefetch / resize / disconnect entry points.                 *)
(*                                                                         *)
(* Every entry point is one action.  The body of an entry point is a       *)
(* chain of operators over a record s that carries the fields of           *)
(* PrefetchState (and the few globals next to it) through the calls the C  *)
(* code makes, in the order the C code makes them.  Transport calls        *)
(* (page_server->send/flush/receive) take their outcome from the set       *)
(* s.fail of call ordinals that fail during the current entry point.       *)
(* Assert()s are compiled out in production builds: the model continues    *)
(* past them and records the failed assertion in the observation fields of *)
(* s, which start afresh with every entry point.                           *)
(***************************************************************************)
EXTENDS Integers, Sequences, FiniteSets, TLC

----------------------------------------------------------------------------
(* Bounds of the model *)

NumBlocks == 3          \* blocks 1..NumBlocks of one permanent relation fork
MaxCap == 3             \* readahead_buffer_size ranges over 2..MaxCap
MaxRing == 3            \* no new slot is registered once ring_unused = MaxRing
MaxFates == 2           \* transport calls 1..MaxFates of an entry point may fail
MaxLsnIdx == 4          \* last-written LSNs are wal_segment_size + 8*k, k in 3..MaxLsnIdx
MaxFlushEvery == 1      \* flush_every_n_requests ranges over 0..MaxFlushEvery
MaxResizes == 1         \* readahead_buffer_size is reassigned at most MaxResizes times
MaxWritten == 1         \* blocks 1..MaxWritten are written out again after Init
MaxWal == 2             \* records are logged while the insert position is below LsnAt(MaxLsnIdx + MaxWal)

(* Program constants (PostgreSQL WAL layout) *)

XLOG_BLCKSZ == 8192
SizeOfXLogShortPHD == 24
SizeOfXLogLongPHD == 40
wal_segment_size == 16777216
InvalidXLogRecPtr == 0
BLCKSZ == 8192

\* The block number that stands for the metadata of a relation fork
\* (InvalidBlockNumber); block numbers are never negative.
REL_METADATA_PSEUDO_BLOCKNO == -1

Blocks == 1..NumBlocks
\* The blocks a last-written LSN is kept for: block 0, which is never
\* prefetched, the blocks 1..NumBlocks, and the metadata pseudo block.
LwBlocks == {REL_METADATA_PSEUDO_BLOCKNO} \cup (0..NumBlocks)
\* get_cached_relsize() finds no entry
NotCached == -1
ForkNumbers == {"MAIN", "FSM", "VM"}
CapSizes == 2..MaxCap
LsnAt(k) == wal_segment_size + 8 * k
WrittenLsns == { LsnAt(k) : k \in 3..MaxLsnIdx }
\* At most one transport call of an entry point fails.
FateSets == {{}} \cup { {k} : k \in 1..MaxFates }

Max(a, b) == IF a >= b THEN a ELSE b

----------------------------------------------------------------------------
(* PrefetchRequest slots and responses *)

NoTag == 0
NoResp == [rtag |-> "NULL", blk |-> 0, lsn |-> 0]

\* MemSet(slot, 0, ...); slot->status = PRFS_UNUSED
EmptySlot ==
    [buftag |-> NoTag, effective_request_lsn |-> 0, response |-> NoResp,
     status |-> "UNUSED", my_ring_index |-> 0]

\* The page server answers a GetPage request with the page of the block at
\* the request's LSN, or with an ErrorResponse (req.err: the server cannot
\* serve this request).
PageServerAnswer(req) ==
    IF req.blk = REL_METADATA_PSEUDO_BLOCKNO
    THEN [rtag |-> IF req.err THEN "Error" ELSE req.kind,
          blk |-> req.size, lsn |-> req.lsn]
    ELSE [rtag |-> IF req.err THEN "Error" ELSE "GetPage",
          blk |-> req.blk, lsn |-> req.lsn]

\* &MyPState->prf_buffer[ring_index % readahead_buffer_size]
Pos(s, ring_index) == ring_index % s.cap

\* The AssertMacro of GetPrfSlot: ring_last <= ring_index < ring_unused.
Access(s, ring_index) ==
    IF s.ring_last <= ring_index /\ ring_index < s.ring_unused
    THEN s
    ELSE [s EXCEPT !.bad_access = TRUE]

\* What a step records of MyPState before and after it runs.
Snapshot(s) ==
    [cap |-> s.cap, ring |-> s.ring, prf_hash |-> s.prf_hash,
     ring_last |-> s.ring_last, ring_receive |-> s.ring_receive,
     ring_flush |-> s.ring_flush, ring_unused |-> s.ring_unused,
     n_requests_inflight |-> s.n_requests_inflight,
     n_responses_buffered |-> s.n_responses_buffered,
     n_unused |-> s.n_unused]

----------------------------------------------------------------------------
(* prf_hash: simplehash keyed by slot pointer, hashed and compared through *)
(* the buffer tag the slot holds at the time of the call.  An entry keeps  *)
(* the hash of the tag it was inserted with (SH_STORE_HASH).               *)

NoEntry == -1

HashMatches(hash, ring, tag) ==
    { e \in hash : e.h = tag /\ ring[e.pos].buftag = tag }

prfh_lookup(hash, ring, tag) ==
    IF HashMatches(hash, ring, tag) = {}
    THEN NoEntry
    ELSE (CHOOSE e \in HashMatches(hash, ring, tag) : TRUE).pos

prfh_delete(hash, ring, tag) ==
    IF HashMatches(hash, ring, tag) = {}
    THEN hash
    ELSE hash \ { CHOOSE e \in HashMatches(hash, ring, tag) : TRUE }

prfh_insert(hash, ring, pos) ==
    IF HashMatches(hash, ring, ring[pos].buftag) # {}
    THEN hash
    ELSE hash \cup { [h |-> ring[pos].buftag, pos |-> pos] }

----------------------------------------------------------------------------
(* Ring maintenance *)

\* uint64 comparison of two values that are small in absolute value:
\* a negative mathematical value stands for 2^64 + value.
U64Less(a, b) == IF (a < 0) = (b < 0) THEN a < b ELSE b < 0

\* C integer division truncates toward zero.
CDiv(n, d) == IF n >= 0 THEN n \div d ELSE -((-n) \div d)

ReceiveBufferNeedsCompaction(s) ==
    U64Less(CDiv(s.n_responses_buffered, 8),
            s.ring_receive - s.ring_last - s.n_responses_buffered)

RECURSIVE prefetch_cleanup_trailing_unused(_)
prefetch_cleanup_trailing_unused(s) ==
    IF s.ring_last < s.ring_receive
    THEN IF s.ring[Pos(s, s.ring_last)].status = "UNUSED"
         THEN prefetch_cleanup_trailing_unused(
                  [Access(s, s.ring_last) EXCEPT !.ring_last = @ + 1])
         ELSE Access(s, s.ring_last)
    ELSE s

\* First loop of compact_prefetch_buffers: the highest UNUSED ring index in
\* [ring_last, ring_receive), or ring_last when there is none.
RECURSIVE CompactFindEmpty(_, _)
CompactFindEmpty(s, search) ==
    IF search > s.ring_last
    THEN IF s.ring[Pos(s, search - 1)].status = "UNUSED"
         THEN search - 1
         ELSE CompactFindEmpty(s, search - 1)
    ELSE s.ring_last

\* Lines 313-317 without line 316: the LSN stamp is not copied.
MovedSlot_DropsLsn(source, empty) ==
    [source EXCEPT !.my_ring_index = empty, !.effective_request_lsn = 0]

\* Lines 313-317: the target slot after the move.
MovedSlot(source, empty) == [source EXCEPT !.my_ring_index = empty]

\* Second loop of compact_prefetch_buffers.
RECURSIVE CompactMove(_, _, _, _)
CompactMove(s, search, empty, n_moved) ==
    IF search > s.ring_last
    THEN LET idx == search - 1
             sp == Pos(s, idx)
             tp == Pos(s, empty)
             source == s.ring[sp]
             s0 == Access(s, idx)
         IN  IF source.status = "UNUSED"
             THEN CompactMove(s0, idx, empty, n_moved)
             ELSE LET ring1 == [s.ring EXCEPT
                                   ![tp] = MovedSlot(source, empty)]
                      h1 == prfh_delete(s.prf_hash, ring1, source.buftag)
                      h2 == prfh_insert(h1, ring1, tp)
                      ring2 == [ring1 EXCEPT ![sp] = EmptySlot]
                  IN  CompactMove([Access(s0, empty) EXCEPT
                                      !.ring = ring2, !.prf_hash = h2,
                                      !.ncompact_moved = @ + 1],
                                  idx, empty - 1, n_moved + 1)
    ELSE [s |-> s, n_moved |-> n_moved]

compact_prefetch_buffers(s) ==
    LET \* the call is recorded with the state it found and the one it left
        Noted(r) ==
            [r EXCEPT !.s = [@ EXCEPT !.compactions =
                                Append(@, [before |-> Snapshot(s),
                                           after |-> Snapshot(r.s),
                                           moved |-> r.ok])]]
        Moved(m) ==
            IF m.n_moved > 0
            THEN [s |-> prefetch_cleanup_trailing_unused(m.s), ok |-> TRUE]
            ELSE [s |-> m.s, ok |-> FALSE]
        From(empty) == Noted(Moved(CompactMove(s, empty, empty, 0)))
    IN  IF s.ring_receive = s.ring_last
        THEN Noted([s |-> s, ok |-> FALSE])
        ELSE From(CompactFindEmpty(s, s.ring_receive))

prefetch_set_unused(s, ring_index) ==
    LET pos == Pos(s, ring_index)
        slot == s.ring[pos]
        \* lines 620-626, on the state with the slot released
        Released(s1) ==
            IF s1.ring_last = ring_index
            THEN prefetch_cleanup_trailing_unused(s1)
            ELSE IF ReceiveBufferNeedsCompaction(s1)
            THEN compact_prefetch_buffers(s1).s
            ELSE s1
    IN  IF ring_index < s.ring_last
        THEN Access(s, ring_index)
        ELSE IF slot.status = "UNUSED"
        THEN Access(s, ring_index)
        ELSE Released([Access(s, ring_index) EXCEPT
                         !.bad_set_unused = @ \/ slot.status = "REQUESTED",
                         !.n_responses_buffered =
                             IF slot.status = "RECEIVED" THEN @ - 1 ELSE @,
                         !.n_unused =
                             IF slot.status = "RECEIVED" THEN @ + 1 ELSE @,
                         !.prf_hash = prfh_delete(@, s.ring, slot.buftag),
                         !.ring = [@ EXCEPT ![pos] = EmptySlot],
                         !.nretired = @ + 1])

\* The loop of lines 560-575 without line 574: the slot is left TAG_REMAINS.
RECURSIVE DisconnectLoop_KeepsTag(_)
DisconnectLoop_KeepsTag(s) ==
    IF s.ring_receive < s.ring_unused
    THEN DisconnectLoop_KeepsTag(
             [Access(s, s.ring_receive) EXCEPT
                 !.ring = [@ EXCEPT ![Pos(s, s.ring_receive)] =
                              [@ EXCEPT !.status = "TAG_REMAINS"]],
                 !.n_requests_inflight = @ - 1,
                 !.ring_receive = @ + 1])
    ELSE s

RECURSIVE DisconnectLoop(_)
DisconnectLoop(s) ==
    IF s.ring_receive < s.ring_unused
    THEN DisconnectLoop(prefetch_set_unused(
             [Access(s, s.ring_receive) EXCEPT
                 !.ring = [@ EXCEPT ![Pos(s, s.ring_receive)] =
                              [@ EXCEPT !.status = "TAG_REMAINS"]],
                 !.n_requests_inflight = @ - 1,
                 !.ring_receive = @ + 1],
             s.ring_receive))
    ELSE s

\* prefetch_on_ps_disconnect without line 559: ring_flush stays behind.
prefetch_on_ps_disconnect_KeepsFlush(s) ==
    LET Noted(d) ==
            [d EXCEPT !.disconnects =
                 Append(@, [before |-> Snapshot(s), after |-> Snapshot(d)])]
    IN  Noted(DisconnectLoop([s EXCEPT !.ndisc = @ + 1]))

prefetch_on_ps_disconnect(s) ==
    LET \* the call is recorded with the state it found and the one it left
        Noted(d) ==
            [d EXCEPT !.disconnects =
                 Append(@, [before |-> Snapshot(s), after |-> Snapshot(d)])]
    IN  Noted(DisconnectLoop(
                  [s EXCEPT !.ring_flush = s.ring_unused, !.ndisc = @ + 1]))

----------------------------------------------------------------------------
(* Transport facade: page_server->send / flush / receive.                  *)
(* A call whose ordinal is in s.fail fails: the connection is dropped,     *)
(* the requests in flight on it are lost, the disconnect hook runs, and    *)
(* the call returns false / NULL.                                          *)

NextCallFails(s) == (s.ncall + 1) \in s.fail

pageserver_disconnect(s) ==
    prefetch_on_ps_disconnect([s EXCEPT !.wire = << >>, !.unflushed = 0])

page_server_send(s, req) ==
    IF NextCallFails(s)
    THEN [s |-> pageserver_disconnect([s EXCEPT !.ncall = @ + 1]),
          ok |-> FALSE]
    ELSE [s |-> [s EXCEPT !.ncall = @ + 1,
                          !.wire = Append(@, req),
                          !.unflushed = @ + 1,
                          !.sent_unflushed = @ \/ req.lsn > s.xlog_flush,
                          !.sent = Append(@, req)],
          ok |-> TRUE]

page_server_flush(s) ==
    IF NextCallFails(s)
    THEN [s |-> pageserver_disconnect([s EXCEPT !.ncall = @ + 1]),
          ok |-> FALSE]
    ELSE [s |-> [s EXCEPT !.ncall = @ + 1, !.unflushed = 0], ok |-> TRUE]

page_server_receive(s) ==
    IF NextCallFails(s)
    THEN [s |-> pageserver_disconnect([s EXCEPT !.ncall = @ + 1]),
          ok |-> FALSE, resp |-> NoResp]
    ELSE IF s.wire = << >>
    THEN [s |-> [s EXCEPT !.ncall = @ + 1, !.starved = TRUE],
          ok |-> FALSE, resp |-> NoResp]
    ELSE \* the oldest unanswered request is still in the output buffer
         \* when every request on the connection is
         [s |-> [s EXCEPT !.ncall = @ + 1, !.wire = Tail(@), !.nrecv = @ + 1,
                          !.recv_unflushed = @ \/ s.unflushed >= Len(s.wire),
                          !.unflushed = IF @ >= Len(s.wire) THEN @ - 1 ELSE @],
          ok |-> TRUE, resp |-> PageServerAnswer(Head(s.wire))]

----------------------------------------------------------------------------
(* Receiving responses *)

\* The disconnect hooks that ran between the states s0 and s1.
HooksBetween(s0, s1) ==
    SubSeq(s1.disconnects, Len(s0.disconnects) + 1, Len(s1.disconnects))

\* prefetch_read without the test of line 532: the bookkeeping of lines
\* 535-541 is done whether or not a response arrived.
prefetch_read_CountsFailure(s, pos) ==
    LET Store(r) ==
            [s |-> [r.s EXCEPT
                      !.n_responses_buffered = @ + 1,
                      !.n_requests_inflight = @ - 1,
                      !.ring_receive = @ + 1,
                      !.ring = [@ EXCEPT ![pos] =
                                   [@ EXCEPT !.status = "RECEIVED",
                                             !.response = r.resp]]],
             ok |-> r.ok]
    IN  Store(page_server_receive(s))

\* slot is the pointer GetPrfSlot(ring_receive) the caller passes in.
prefetch_read(s, pos) ==
    LET Store(r) ==
            IF r.ok
            THEN [s |-> [r.s EXCEPT
                            !.n_responses_buffered = @ + 1,
                            !.n_requests_inflight = @ - 1,
                            !.ring_receive = @ + 1,
                            !.ring = [@ EXCEPT ![pos] =
                                         [@ EXCEPT !.status = "RECEIVED",
                                                   !.response = r.resp]]],
                  ok |-> TRUE]
            ELSE [s |-> r.s, ok |-> FALSE]
    IN  Store(page_server_receive(s))

RECURSIVE WaitLoop(_, _)
WaitLoop(s, ring_index) ==
    LET \* a failed receive is recorded with the state before and after it
        Again(b, r) ==
            IF r.ok THEN WaitLoop(r.s, ring_index)
            ELSE IF r.s.starved THEN r
            ELSE [r EXCEPT !.s = [@ EXCEPT !.wait_fails =
                     Append(@, [step |-> "receive",
                                before |-> Snapshot(b),
                                after |-> Snapshot(r.s),
                                hooks |-> HooksBetween(b, r.s)])]]
        Read(b) == Again(b, prefetch_read(b, Pos(b, b.ring_receive)))
    IN  IF s.ring_receive <= ring_index
        THEN Read(Access(s, s.ring_receive))
        ELSE [s |-> s, ok |-> TRUE]

prefetch_wait_for(s, ring_index) ==
    LET \* the call is recorded with what it returned
        Noted(r) ==
            [r EXCEPT !.s = [@ EXCEPT !.wait_returns =
                                Append(@, [ok |-> r.ok,
                                           nfails |-> Len(r.s.wait_fails)
                                                        - Len(s.wait_fails)])]]
        Flushed(f) ==
            IF f.ok
            THEN WaitLoop([f.s EXCEPT !.ring_flush = f.s.ring_unused],
                          ring_index)
            ELSE \* the flush failed: the step is recorded
                 [s |-> [f.s EXCEPT !.wait_fails =
                            Append(@, [step |-> "flush",
                                       before |-> Snapshot(s),
                                       after |-> Snapshot(f.s),
                                       hooks |-> HooksBetween(s, f.s)])],
                  ok |-> FALSE]
    IN  IF s.ring_flush <= ring_index /\ s.ring_unused > s.ring_flush
        THEN Noted(Flushed(page_server_flush(s)))
        ELSE Noted(WaitLoop(s, ring_index))

\* consume_prefetch_responses that leaves the responses where they are.
consume_prefetch_responses_Skip(s) == s

consume_prefetch_responses(s) ==
    IF s.ring_receive < s.ring_unused
    THEN prefetch_wait_for(s, s.ring_unused - 1).s
    ELSE s

----------------------------------------------------------------------------
(* Request-LSN oracle *)

\* lsn & (XLOG_BLCKSZ - 1), lsn & (wal_segment_size - 1): both sizes are
\* powers of two, so the mask is the remainder.
\* nm_adjust_lsn without the branch of lines 1373-1376.
nm_adjust_lsn_ShortOnly(lsn) ==
    IF lsn % XLOG_BLCKSZ = SizeOfXLogShortPHD
    THEN lsn - SizeOfXLogShortPHD
    ELSE lsn

nm_adjust_lsn(lsn) ==
    IF lsn % XLOG_BLCKSZ = SizeOfXLogShortPHD
    THEN lsn - SizeOfXLogShortPHD
    ELSE IF lsn % wal_segment_size = SizeOfXLogLongPHD
    THEN lsn - SizeOfXLogLongPHD
    ELSE lsn

\* GetLastWrittenLSN(rnode, forknum, blkno) of the last-written-LSN service
GetLastWrittenLSN(s, blk) == s.lwlsn[blk]

neon_get_request_lsn(s, blk) ==
    IF s.recovery
    THEN [latest |-> FALSE, lsn |-> nm_adjust_lsn(GetLastWrittenLSN(s, blk))]
    ELSE IF s.walsender
    THEN [latest |-> TRUE, lsn |-> InvalidXLogRecPtr]
    ELSE [latest |-> TRUE, lsn |-> nm_adjust_lsn(GetLastWrittenLSN(s, blk))]

\* neon_get_request_lsn without the XLogFlush of lines 1436-1444.
RequestLsnFlushed_Never(s, blk) == s

\* The WAL as neon_get_request_lsn leaves it: in a normal backend
\* XLogFlush(lsn) is called when lsn is ahead of GetFlushRecPtr()
\* (lines 1436-1444).
RequestLsnFlushed(s, blk) ==
    LET lsn == neon_get_request_lsn(s, blk).lsn
    IN  IF ~s.recovery /\ ~s.walsender /\ lsn > s.xlog_flush
        THEN [s EXCEPT !.xlog_flush = lsn]
        ELSE s

----------------------------------------------------------------------------
(* Issuing requests *)

\* force = [given, latest, lsn]: given is "force_lsn && force_latest".
NoForce == [given |-> FALSE, latest |-> FALSE, lsn |-> 0]
Forced(latest, lsn) == [given |-> TRUE, latest |-> latest, lsn |-> lsn]

\* while (!page_server->send(req)) ;
RECURSIVE SendLoop(_, _)
SendLoop(s, req) ==
    LET Again(r) == IF r.ok THEN r.s ELSE SendLoop(r.s, req)
    IN  Again(page_server_send(s, req))

\* Line 675 without the Max: prefetch_lsn = lsn.
NewPrefetchLsn_Overwrites(old, lsn) == lsn

\* Line 675 keeping the smaller of the two.
NewPrefetchLsn_Min(old, lsn) == IF old <= lsn THEN old ELSE lsn

\* The watermark an unforced request leaves in prefetch_lsn.
NewPrefetchLsn(old, lsn) == Max(old, lsn)

prefetch_do_request(s, pos, force) ==
    LET blk == s.ring[pos].buftag
        o == neon_get_request_lsn(s, blk)
        req == IF force.given
               THEN [blk |-> blk, lsn |-> force.lsn, latest |-> force.latest,
                     err |-> s.srv_err]
               ELSE [blk |-> blk, lsn |-> o.lsn, latest |-> o.latest,
                     err |-> s.srv_err]
        pl == IF force.given THEN s.prefetch_lsn
              ELSE NewPrefetchLsn(s.prefetch_lsn, o.lsn)
        eff == IF force.given THEN force.lsn ELSE pl
        \* lines 681-694, on the state the send loop leaves
        Sent(s2) ==
            [s2 EXCEPT
               !.n_requests_inflight = @ + 1,
               !.n_unused = @ - 1,
               !.ring_unused = @ + 1,
               !.ring = [@ EXCEPT ![pos] = [@ EXCEPT !.status = "REQUESTED"]],
               !.prf_hash = prfh_insert(@, [s2.ring EXCEPT ![pos] =
                                               [@ EXCEPT !.status = "REQUESTED"]],
                                        pos)]
    IN  Sent(SendLoop(
            [(IF force.given THEN s ELSE RequestLsnFlushed(s, blk)) EXCEPT
               !.prefetch_lsn = pl,
               !.ring = [@ EXCEPT ![pos] =
                            [@ EXCEPT !.effective_request_lsn = eff]],
               !.issued = Append(@,
                   [blk |-> blk, forced |-> force.given, wire_lsn |-> req.lsn,
                    latest |-> req.latest, eff |-> eff,
                    oracle_lsn |-> o.lsn,
                    lw |-> GetLastWrittenLSN(s, blk),
                    pl_before |-> s.prefetch_lsn, pl_after |-> pl])],
            req))

----------------------------------------------------------------------------
(* prefetch_register_buffer *)

\* Line 796 with the ring counted full only once all CAP slots are taken.
RingIsFull_AtCap(s) == s.ring_last + s.cap = s.ring_unused

\* Line 796: the prefetch queue is full.
RingIsFull(s) == s.ring_last + s.cap - 1 = s.ring_unused

\* "Make room" part: lines 796-829.
RegisterMakeRoom(s) ==
    LET cleanup_index == s.ring_last
        \* the switch of lines 814-827; c is the outcome of line 807
        Clear(c) ==
            IF c.ok
            THEN c.s
            ELSE IF c.s.ring[Pos(s, cleanup_index)].status = "REQUESTED"
            THEN prefetch_set_unused(
                     prefetch_wait_for(c.s, cleanup_index).s, cleanup_index)
            ELSE IF c.s.ring[Pos(s, cleanup_index)].status
                        \in {"RECEIVED", "TAG_REMAINS"}
            THEN prefetch_set_unused(c.s, cleanup_index)
            ELSE [c.s EXCEPT !.unreachable = TRUE]
        \* the clean-up is recorded with the state it found and the one
        \* it left; c is the outcome of line 807
        Noted(c) ==
            CHOOSE n \in
                { [r EXCEPT !.rooms =
                      Append(@, [before |-> Snapshot(s), after |-> Snapshot(r),
                                 compacted |-> c.ok,
                                 calls |-> r.ncall - s.ncall,
                                 received |-> r.nrecv - s.nrecv,
                                 unflushed |-> s.unflushed,
                                 failed |-> Len(r.wait_fails) > Len(s.wait_fails),
                                 starved |-> r.starved,
                                 retired_requested |->
                                     r.bad_set_unused /\ ~s.bad_set_unused])] :
                  r \in { Clear(c) } } : TRUE
    IN  IF RingIsFull(s)
        THEN IF ReceiveBufferNeedsCompaction(s)
             THEN Noted(compact_prefetch_buffers(Access(s, cleanup_index)))
             ELSE Noted([s |-> Access(s, cleanup_index), ok |-> FALSE])
        ELSE s

\* "Allocate" part: lines 831-861.
RegisterAllocate(s, tag, force) ==
    LET ring_index == s.ring_unused
        pos == Pos(s, ring_index)
        \* lines 854-859: the result of the flush is not looked at
        Flush(f) == [f EXCEPT !.ring_flush = f.ring_unused]
        Requested(s2) ==
            IF s2.fen > 0 /\ s2.ring_unused - s2.ring_flush >= s2.fen
            THEN Flush(page_server_flush(s2).s)
            ELSE s2
    IN  [s |-> Requested(prefetch_do_request(
                   [s EXCEPT
                      !.overwrite = @ \/ s.ring[pos].status # "UNUSED",
                      !.ring = [@ EXCEPT ![pos] =
                                   [@ EXCEPT !.buftag = tag,
                                             !.my_ring_index = ring_index]]],
                   pos, force)),
         ring_index |-> ring_index]

\* The tests of lines 743 and 754 without the NULL check of line 740.
SlotIsStale_Unforced(force, eff) ==
    IF force.latest THEN force.lsn > eff ELSE force.lsn # eff

\* The test of lines 743 applied whatever force_latest is.
SlotIsStale_IgnoresLatest(force, eff) ==
    /\ force.given
    /\ force.lsn > eff

\* The reuse rule of lines 738-761, for a slot stamped eff.
SlotIsStale(force, eff) ==
    /\ force.given
    /\ IF force.latest THEN force.lsn > eff ELSE force.lsn # eff

prefetch_register_buffer(s, tag, force) ==
    LET pos == prfh_lookup(s.prf_hash, s.ring, tag)
        found == pos # NoEntry
        slot == IF found THEN s.ring[pos] ELSE EmptySlot
        ring_index == slot.my_ring_index
        stale == found /\ SlotIsStale(force, slot.effective_request_lsn)
    IN  IF found /\ ~stale /\ slot.status # "TAG_REMAINS"
        THEN \* lines 776-778
             [s |-> [Access(s, ring_index) EXCEPT !.duplicates = @ + 1],
              ring_index |-> ring_index]
        ELSE RegisterAllocate(
                 RegisterMakeRoom(
                     IF stale
                     THEN \* lines 745-746 / 756-757
                          prefetch_set_unused(
                              [prefetch_wait_for(Access(s, ring_index),
                                                 ring_index).s
                                  EXCEPT !.reg_waits = @ + 1],
                              ring_index)
                     ELSE IF found
                     THEN \* line 771
                          prefetch_set_unused(Access(s, ring_index), ring_index)
                     ELSE s),
                 tag, force)

----------------------------------------------------------------------------
(* neon_read_at_lsn *)

\* Lines 1952-1983: the response of the slot is copied out, or raised.
\* slotpos is the pointer "slot" the function holds at that point.
ReadFinish(s, tag, ring_index, slotpos) ==
    LET slot == s.ring[slotpos]
    IN  IF slot.response = NoResp
        THEN \* resp->tag reads through a NULL pointer
             [s EXCEPT !.served = slot, !.result = "crash"]
        ELSE IF slot.response.rtag = "GetPage"
        THEN [prefetch_cleanup_trailing_unused(
                  prefetch_set_unused([s EXCEPT !.served = slot], ring_index))
                EXCEPT !.result = "page", !.buffer = slot.response,
                       !.lfc_writes = @ + 1]
        ELSE \* ereport(ERROR): the function is left before line 1980
             [s EXCEPT !.served = slot, !.result = "error"]

\* The do ... while (!prefetch_wait_for(ring_index)) loop, lines 1922-1950.
\* entry is [have, ring_index, slotpos]: the hash entry found before the
\* loop, and the slot it points to.
RECURSIVE ReadLoop(_, _, _, _)
ReadLoop(s, tag, force, entry) ==
    LET Waited(w, ring_index, slotpos) ==
            IF w.s.starved
            THEN \* the receive waits for a response that never comes
                 [w.s EXCEPT !.result = "hang"]
            ELSE IF w.ok
            THEN ReadFinish(w.s, tag, ring_index, slotpos)
            ELSE ReadLoop(w.s, tag, force,
                          [have |-> FALSE, ring_index |-> ring_index,
                           slotpos |-> slotpos])
        Registered(r) ==
            Waited(prefetch_wait_for(Access(r.s, r.ring_index), r.ring_index),
                   r.ring_index, Pos(s, r.ring_index))
    IN  IF entry.have
        THEN Waited(prefetch_wait_for(Access(s, entry.ring_index),
                                      entry.ring_index),
                    entry.ring_index, entry.slotpos)
        ELSE Registered(prefetch_register_buffer(
                            [s EXCEPT !.misses = @ + 1], tag, force))

\* The comparison of line 1898 with its operands swapped.
PrefetchLsnIsLargeEnough_Swapped(eff, request_lsn) == request_lsn >= eff

\* Line 1898: the prefetched slot is good for a read at request_lsn.
PrefetchLsnIsLargeEnough(eff, request_lsn) == eff >= request_lsn

neon_read_at_lsn(s, tag, request_lsn, request_latest) ==
    LET pos == prfh_lookup(s.prf_hash, s.ring, tag)
        found == pos # NoEntry
        slot == IF found THEN s.ring[pos] ELSE EmptySlot
        hit == found /\ PrefetchLsnIsLargeEnough(slot.effective_request_lsn,
                                                  request_lsn)
        NoEntryYet == [have |-> FALSE, ring_index |-> 0, slotpos |-> 0]
        \* lines 1903-1919: drop the prefetch whose LSN is too small
        Drop(w) == [prefetch_set_unused(w, w.ring[pos].my_ring_index)
                      EXCEPT !.expired = @ + 1]
    IN  ReadLoop(
            IF hit
            THEN [s EXCEPT !.hits = @ + 1]
            ELSE IF found /\ slot.status = "REQUESTED"
            THEN Drop(prefetch_wait_for(s, slot.my_ring_index).s)
            ELSE IF found
            THEN Drop(s)
            ELSE s,
            tag, Forced(request_latest, request_lsn),
            IF hit
            THEN [have |-> TRUE, ring_index |-> slot.my_ring_index,
                  slotpos |-> pos]
            ELSE NoEntryYet)

----------------------------------------------------------------------------
(* neon_read, neon_prefetch *)

RelPersistences == {"0", "PERMANENT", "TEMP", "UNLOGGED"}

\* lfc_hit is the answer of lfc_read() for the block.
neon_read(s, relpersistence, tag, lfc_hit) ==
    IF relpersistence = "0"
    THEN [s EXCEPT !.result = "elog_error"]
    ELSE IF relpersistence \in {"TEMP", "UNLOGGED"}
    THEN [s EXCEPT !.result = "md"]
    ELSE IF lfc_hit
    THEN [s EXCEPT !.result = "lfc"]
    ELSE LET o == neon_get_request_lsn(s, tag)
         IN  neon_read_at_lsn(RequestLsnFlushed(s, tag), tag, o.lsn, o.latest)

\* lfc_hit is the answer of lfc_cache_contains() for the block.
neon_prefetch(s, relpersistence, tag, lfc_hit) ==
    IF relpersistence \in {"TEMP", "UNLOGGED"}
    THEN [s EXCEPT !.result = "md"]
    ELSE IF lfc_hit
    THEN [s EXCEPT !.result = "lfc"]
    ELSE [prefetch_register_buffer(s, tag, NoForce).s EXCEPT
             !.result = "registered"]

----------------------------------------------------------------------------
(* Services the storage manager calls: the relation-size cache, the       *)
(* last-written-LSN cache, the WAL, the local file cache and md.c.  Each   *)
(* call is recorded in s.events in the order it is made.                    *)

Event(op, blk, lsn, force) ==
    [op |-> op, blk |-> blk, lsn |-> lsn, force |-> force]

Ev(s, op, blk, lsn) ==
    [s EXCEPT !.events = Append(@, Event(op, blk, lsn, FALSE))]

\* A call of one of md.c's functions on the local file of the relation.
md(s, op, blk) == [Ev(s, op, blk, 0) EXCEPT !.result = "md"]

\* elog(ERROR, ...) / ereport(ERROR, ...): the entry point is left at once.
elog_ERROR(s) == [s EXCEPT !.result = "elog_error"]

\* The entry point has been left by an error, a PANIC or a wait that never
\* ends: the statements after the call are not executed.
Left(s) == s.result \in {"elog_error", "PANIC", "crash"} \/ s.starved

set_cached_relsize(s, size) == [s EXCEPT !.relsize = size]

update_cached_relsize(s, size) ==
    [s EXCEPT !.relsize = IF @ = NotCached THEN size ELSE Max(@, size)]

forget_cached_relsize(s) == [s EXCEPT !.relsize = NotCached]

\* The last-written LSN of a block only moves forward.
SetLastWrittenLSN(s, lsn, blk) ==
    [Ev(s, "SetLastWrittenLSNForBlock", blk, lsn) EXCEPT
        !.lwlsn = [@ EXCEPT ![blk] = Max(@, lsn)],
        !.published_unflushed = @ \/ lsn > s.xlog_flush]

SetLastWrittenLSNForRelation(s, lsn) ==
    [Ev(s, "SetLastWrittenLSNForRelation", REL_METADATA_PSEUDO_BLOCKNO, lsn)
        EXCEPT !.lwlsn = [@ EXCEPT ![REL_METADATA_PSEUDO_BLOCKNO] =
                                      Max(@, lsn)],
               !.published_unflushed = @ \/ lsn > s.xlog_flush]

\* XLogInsert of one record: the record ends at the new insert position.
XLogInsert(s, op, blk) ==
    LET recptr == s.xlog_insert + 8
    IN  [s |-> [Ev(s, op, blk, recptr) EXCEPT !.xlog_insert = recptr],
         recptr |-> recptr]

XLogFlush(s, lsn) ==
    [Ev(s, "XLogFlush", 0, lsn) EXCEPT !.xlog_flush = Max(@, lsn)]

----------------------------------------------------------------------------
(* Pages *)

\* A page: the LSN of its header, pd_upper, the number of line pointers it
\* holds and the size of its special space.
PageOf(lsn, pd_upper, nitems, special) ==
    [lsn |-> lsn, pd_upper |-> pd_upper, nitems |-> nitems,
     special |-> special]

\* PageInit(page, BLCKSZ, specialSize) on a zeroed buffer
PageInit(specialSize) == PageOf(0, BLCKSZ - specialSize, 0, specialSize)

ZeroPage == PageOf(0, 0, 0, 0)

\* PageIsNew: pd_upper == 0
PageIsNew(page) == page.pd_upper = 0

\* PageIsEmptyHeapPage without the comparison of line 1209
PageIsEmptyHeapPage_AnyEmpty(page) == page.nitems = 0

\* memcmp against PageInit(empty_page, BLCKSZ, 0)
PageIsEmptyHeapPage(page) == page = PageInit(0)

PageXLogRecPtrGet(page) == page.lsn

\* The pages handed to the storage manager: an all-zeros page,
\* a freshly initialised heap page, a freshly
\* initialised index page (special space of 16 bytes), a heap page with one
\* tuple that was never WAL-logged, and the same page stamped with the LSN
\* of a WAL record.
Pages ==
    {ZeroPage, PageInit(0), PageInit(16), PageOf(0, BLCKSZ - 64, 1, 0)}
        \cup { PageOf(l, BLCKSZ - 64, 1, 0) : l \in WrittenLsns }

----------------------------------------------------------------------------
(* neon_wallog_page *)

\* memcpy of the page into a local buffer, then log_newpage() of the copy
log_newpage_copy(s, blkno, page) ==
    XLogInsert(Ev(s, "memcpy", blkno, PageXLogRecPtrGet(page)),
               "log_newpage", blkno)

\* The tail of neon_wallog_page with XLogFlush after the publication of
\* the record's LSN.
LogAndPublish_FlushLast(s, blocknum, buffer) ==
    LET l == log_newpage_copy(s, blocknum, buffer)
    IN  XLogFlush(SetLastWrittenLSN(l.s, l.recptr, blocknum), l.recptr)

\* lines 1237-1245 and 1312
LogAndPublish(s, blocknum, buffer) ==
    LET l == log_newpage_copy(s, blocknum, buffer)
    IN  SetLastWrittenLSN(XLogFlush(l.s, l.recptr), l.recptr, blocknum)

neon_wallog_page(s, blocknum, buffer, force) ==
    LET c == [s EXCEPT !.events =
                 Append(@, Event("neon_wallog_page", blocknum,
                                 PageXLogRecPtrGet(buffer), force))]
    IN  IF c.ShutdownRequestPending
        THEN c
        ELSE IF ~c.XLogInsertAllowed
        THEN c
        ELSE IF (force \/ c.forknum \in {"FSM", "VM"}) /\ ~c.recovery
        THEN LogAndPublish(c, blocknum, buffer)
        ELSE IF PageXLogRecPtrGet(buffer) = InvalidXLogRecPtr
        THEN IF PageIsNew(buffer) \/ PageIsEmptyHeapPage(buffer)
             THEN SetLastWrittenLSN(c, InvalidXLogRecPtr, blocknum)
             ELSE [c EXCEPT !.result = "PANIC"]
        ELSE SetLastWrittenLSN(c, PageXLogRecPtrGet(buffer), blocknum)

----------------------------------------------------------------------------
(* page_server_request and the relation-level entry points *)

\* A metadata request: NeonExistsRequest or NeonNblocksRequest for the fork.
\* The answer the page server would give travels with the request.
MetaRequest(s, kind) ==
    LET o == neon_get_request_lsn(s, REL_METADATA_PSEUDO_BLOCKNO)
    IN  [blk |-> REL_METADATA_PSEUDO_BLOCKNO, lsn |-> o.lsn,
         latest |-> o.latest, err |-> s.srv_err, kind |-> kind,
         size |-> s.srv_size]

\* The do-while of lines 868-873.  A failing send or flush repeats the
\* send; a failing receive repeats the whole body.
RECURSIVE page_server_request(_, _)
page_server_request(s, req) ==
    LET Received(r) ==
            IF r.ok THEN r
            ELSE IF r.s.starved THEN r
            ELSE page_server_request(r.s, req)
        \* the receive of line 872 is recorded with the ring it finds
        Noted(c, r) ==
            IF r.ok
            THEN [r EXCEPT !.s = [@ EXCEPT !.sync_recvs =
                     Append(@, [ring_receive |-> c.ring_receive,
                                ring_flush |-> c.ring_flush,
                                ring_unused |-> c.ring_unused,
                                pending |-> c.wire,
                                unflushed |-> c.unflushed,
                                req |-> req,
                                resp |-> r.resp,
                                nfails |-> Len(c.disconnects)])]]
            ELSE r
        Consumed(c) ==
            IF c.starved THEN [s |-> c, ok |-> FALSE, resp |-> NoResp]
            ELSE Received(Noted(c, page_server_receive(c)))
        Flushed(f) ==
            IF f.ok
            THEN Consumed(consume_prefetch_responses(
                     [f.s EXCEPT !.ring_flush = f.s.ring_unused]))
            ELSE page_server_request(f.s, req)
        Sent(r) ==
            IF r.ok THEN Flushed(page_server_flush(r.s))
            ELSE page_server_request(r.s, req)
    IN  Sent(page_server_send(Ev(s, "page_server_request", req.blk, req.lsn),
                              req))

neon_exists(s) ==
    LET Answered(r) ==
            IF r.s.starved THEN r.s
            ELSE IF r.resp.rtag = "Exists"
            THEN [r.s EXCEPT !.result = "returned",
                             !.returned = IF r.resp.blk >= 0 THEN "true"
                                          ELSE "false"]
            ELSE elog_ERROR(r.s)
        Remote ==
            IF s.relsize # NotCached
            THEN [s EXCEPT !.result = "returned", !.returned = "true"]
            ELSE Answered(page_server_request(
                              RequestLsnFlushed(s, REL_METADATA_PSEUDO_BLOCKNO),
                              MetaRequest(s, "Exists")))
    IN  IF s.smgr_relpersistence = "0"
        THEN IF s.mdexists
             THEN [md(s, "mdexists", 0) EXCEPT !.returned = "true"]
             ELSE LET t == Ev(s, "mdexists", 0, 0)
                  IN  IF t.relsize # NotCached
                      THEN [t EXCEPT !.result = "returned",
                                     !.returned = "true"]
                      ELSE Answered(page_server_request(
                                        RequestLsnFlushed(t, REL_METADATA_PSEUDO_BLOCKNO),
                                        MetaRequest(t, "Exists")))
        ELSE IF s.smgr_relpersistence \in {"TEMP", "UNLOGGED"}
        THEN [md(s, "mdexists", 0) EXCEPT
                 !.returned = IF s.mdexists THEN "true" ELSE "false"]
        ELSE Remote

\* neon_create with the relation-size cache seeded for local relations too.
neon_create_CachesLocal(s, isRedo) ==
    IF s.smgr_relpersistence = "0"
    THEN elog_ERROR(s)
    ELSE IF s.smgr_relpersistence \in {"TEMP", "UNLOGGED"}
    THEN set_cached_relsize(md(s, "mdcreate", 0), 0)
    ELSE IF isRedo
    THEN [update_cached_relsize(s, 0) EXCEPT !.result = "done"]
    ELSE [set_cached_relsize(s, 0) EXCEPT !.result = "done"]

neon_create(s, isRedo) ==
    IF s.smgr_relpersistence = "0"
    THEN elog_ERROR(s)
    ELSE IF s.smgr_relpersistence \in {"TEMP", "UNLOGGED"}
    THEN md(s, "mdcreate", 0)
    ELSE IF isRedo
    THEN [update_cached_relsize(s, 0) EXCEPT !.result = "done"]
    ELSE [set_cached_relsize(s, 0) EXCEPT !.result = "done"]

\* rnode is the relation's; temp tells whether it belongs to a backend
\* (RelFileNodeBackendIsTemp).
neon_unlink(s, temp) ==
    LET u == Ev(s, "mdunlink", 0, 0)
    IN  [(IF temp THEN u ELSE forget_cached_relsize(u)) EXCEPT
            !.result = "done"]

neon_open(s) == [Ev(s, "mdopen", 0, 0) EXCEPT !.result = "done"]

neon_close(s) == [Ev(s, "mdclose", 0, 0) EXCEPT !.result = "done"]

neon_nblocks(s) ==
    LET Answered(r) ==
            IF r.s.starved THEN r.s
            ELSE IF r.resp.rtag = "Nblocks"
            THEN [update_cached_relsize(r.s, r.resp.blk) EXCEPT
                     !.result = "returned", !.n_blocks = r.resp.blk]
            ELSE elog_ERROR(r.s)
    IN  IF s.smgr_relpersistence = "0"
        THEN elog_ERROR(s)
        ELSE IF s.smgr_relpersistence \in {"TEMP", "UNLOGGED"}
        THEN [md(s, "mdnblocks", 0) EXCEPT !.n_blocks = s.md_nblocks]
        ELSE IF s.relsize # NotCached
        THEN [s EXCEPT !.result = "returned", !.n_blocks = s.relsize]
        ELSE Answered(page_server_request(
                          RequestLsnFlushed(s, REL_METADATA_PSEUDO_BLOCKNO),
                          MetaRequest(s, "Nblocks")))

lfc_write(s, blk) == [Ev(s, "lfc_write", blk, 0) EXCEPT !.lfc_writes = @ + 1]

neon_write(s, blocknum, buffer) ==
    LET Remote(t) ==
            LET w == neon_wallog_page(t, blocknum, buffer, FALSE)
            IN  IF Left(w) THEN w
                ELSE [lfc_write(w, blocknum) EXCEPT !.result = "done"]
    IN  IF s.smgr_relpersistence = "0"
        THEN IF s.mdexists
             THEN md(Ev(s, "mdexists", 0, 0), "mdwrite", blocknum)
             ELSE Remote(Ev(s, "mdexists", 0, 0))
        ELSE IF s.smgr_relpersistence \in {"TEMP", "UNLOGGED"}
        THEN md(s, "mdwrite", blocknum)
        ELSE Remote(s)

\* The gap loop with the force flag dropped.
RECURSIVE ExtendGap_Unforced(_, _, _, _)
ExtendGap_Unforced(s, n_blocks, blkno, buffer) ==
    IF Left(s) \/ ~(n_blocks < blkno)
    THEN s
    ELSE ExtendGap_Unforced(neon_wallog_page(s, n_blocks, buffer, FALSE),
                            n_blocks + 1, blkno, buffer)

\* while (n_blocks < blkno) neon_wallog_page(..., n_blocks++, buffer, true)
RECURSIVE ExtendGap(_, _, _, _)
ExtendGap(s, n_blocks, blkno, buffer) ==
    IF Left(s) \/ ~(n_blocks < blkno)
    THEN s
    ELSE ExtendGap(neon_wallog_page(s, n_blocks, buffer, TRUE),
                   n_blocks + 1, blkno, buffer)

\* s.cluster_full: max_cluster_size > 0, the process is not an autovacuum
\* worker and the cluster has reached the limit.
neon_extend(s, blkno, buffer) ==
    LET Tail2(w) ==
            LET c == lfc_write(set_cached_relsize(w, blkno + 1), blkno)
                lsn == PageXLogRecPtrGet(buffer)
            IN  [(IF lsn = InvalidXLogRecPtr
                  THEN SetLastWrittenLSNForRelation(
                           SetLastWrittenLSN(c, c.xlog_insert, blkno),
                           c.xlog_insert)
                  ELSE SetLastWrittenLSNForRelation(c, lsn))
                 EXCEPT !.result = "done"]
        Logged(w) == IF Left(w) THEN w ELSE Tail2(w)
        Gap(g) ==
            IF Left(g) THEN g
            ELSE Logged(neon_wallog_page(g, blkno, buffer, FALSE))
        Sized(n) ==
            IF Left(n) THEN n
            ELSE Gap(ExtendGap(n, n.n_blocks, blkno, buffer))
    IN  IF s.smgr_relpersistence = "0"
        THEN elog_ERROR(s)
        ELSE IF s.smgr_relpersistence \in {"TEMP", "UNLOGGED"}
        THEN md(s, "mdextend", blkno)
        ELSE IF s.cluster_full
        THEN elog_ERROR(s)
        ELSE Sized(neon_nblocks(s))

neon_writeback(s, blocknum) ==
    IF s.smgr_relpersistence \in {"0", "TEMP", "UNLOGGED"}
    THEN md(s, "mdwriteback", blocknum)
    ELSE [s EXCEPT !.result = "done"]

neon_truncate(s, nblocks) ==
    IF s.smgr_relpersistence = "0"
    THEN elog_ERROR(s)
    ELSE IF s.smgr_relpersistence \in {"TEMP", "UNLOGGED"}
    THEN md(s, "mdtruncate", nblocks)
    ELSE LET lsn == nm_adjust_lsn(s.xlog_insert)
         IN  [SetLastWrittenLSNForRelation(
                  XLogFlush(set_cached_relsize(s, nblocks), lsn), lsn)
              EXCEPT !.result = "done"]

\* neon_immedsync with the case 0 of lines 2404-2406 falling through to the
\* permanent case.
neon_immedsync_IgnoresUnknown(s) ==
    IF s.smgr_relpersistence \in {"TEMP", "UNLOGGED"}
    THEN md(s, "mdimmedsync", 0)
    ELSE [s EXCEPT !.result = "done"]

neon_immedsync(s) ==
    IF s.smgr_relpersistence = "0"
    THEN elog_ERROR(s)
    ELSE IF s.smgr_relpersistence \in {"TEMP", "UNLOGGED"}
    THEN md(s, "mdimmedsync", 0)
    ELSE [s EXCEPT !.result = "done"]

----------------------------------------------------------------------------
(* Unlogged relation builds *)

UnloggedBuildPhases ==
    {"NOT_IN_PROGRESS", "PHASE_1", "PHASE_2", "NOT_PERMANENT"}

XactEvents ==
    {"ABORT", "PARALLEL_ABORT", "COMMIT", "PARALLEL_COMMIT", "PREPARE",
     "PRE_COMMIT", "PARALLEL_PRE_COMMIT", "PRE_PREPARE"}

\* An Assert() whose condition is false: a production build goes on.
AssertThat(s, cond) == IF cond THEN s ELSE [s EXCEPT !.assert_failed = TRUE]

neon_start_unlogged_build(s) ==
    LET Sized(n) ==
            IF Left(n) THEN n
            ELSE IF n.n_blocks # 0 THEN elog_ERROR(n)
            ELSE [Ev(n, "mdcreate", 0, 0) EXCEPT
                     !.unlogged_build_rel = "reln",
                     !.unlogged_build_phase = "PHASE_1",
                     !.smgr_relpersistence = "UNLOGGED",
                     !.result = "done"]
        a == AssertThat(s, s.unlogged_build_rel = "NULL")
    IN  IF s.unlogged_build_phase # "NOT_IN_PROGRESS"
        THEN elog_ERROR(s)
        ELSE IF a.smgr_relpersistence = "0"
        THEN elog_ERROR(a)
        ELSE IF a.smgr_relpersistence \in {"TEMP", "UNLOGGED"}
        THEN [a EXCEPT !.unlogged_build_rel = "reln",
                       !.unlogged_build_phase = "NOT_PERMANENT",
                       !.result = "done"]
        ELSE Sized(neon_nblocks(a))

\* neon_finish_unlogged_build_phase_1 without the return of line 2506.
neon_finish_unlogged_build_phase_1_Always(s) ==
    [s EXCEPT !.unlogged_build_phase = "PHASE_2", !.result = "done"]

neon_finish_unlogged_build_phase_1(s) ==
    LET a == AssertThat(s, s.unlogged_build_rel = "reln")
    IN  IF a.unlogged_build_phase = "NOT_PERMANENT"
        THEN [a EXCEPT !.result = "done"]
        ELSE [AssertThat(a, a.unlogged_build_phase = "PHASE_1"
                              /\ a.smgr_relpersistence = "UNLOGGED")
              EXCEPT !.unlogged_build_phase = "PHASE_2", !.result = "done"]

neon_end_unlogged_build(s) ==
    LET a == AssertThat(s, s.unlogged_build_rel = "reln")
        Dropped ==
            [Ev(Ev(forget_cached_relsize(
                       AssertThat(a, a.unlogged_build_phase = "PHASE_2"
                                       /\ a.smgr_relpersistence = "UNLOGGED")),
                   "mdclose", 0, 0), "mdunlink", 0, 0)
             EXCEPT !.smgr_relpersistence = "PERMANENT"]
    IN  [(IF a.unlogged_build_phase # "NOT_PERMANENT" THEN Dropped ELSE a)
         EXCEPT !.unlogged_build_rel = "NULL",
                !.unlogged_build_phase = "NOT_IN_PROGRESS",
                !.result = "done"]

\* AtEOXact_neon with the commit-type events treated like an abort.
AtEOXact_neon_Silent(s, event) ==
    [s EXCEPT !.unlogged_build_rel = "NULL",
              !.unlogged_build_phase = "NOT_IN_PROGRESS",
              !.result = "done"]

AtEOXact_neon(s, event) ==
    IF event \in {"ABORT", "PARALLEL_ABORT"}
    THEN [s EXCEPT !.unlogged_build_rel = "NULL",
                   !.unlogged_build_phase = "NOT_IN_PROGRESS",
                   !.result = "done"]
    ELSE IF s.unlogged_build_phase # "NOT_IN_PROGRESS"
    THEN [s EXCEPT !.unlogged_build_rel = "NULL",
                   !.unlogged_build_phase = "NOT_IN_PROGRESS",
                   !.result = "internal_error"]
    ELSE [s EXCEPT !.result = "done"]

----------------------------------------------------------------------------
(* neon_redo_read_buffer_filter *)

\* s.old_filter: "none" when no filter was installed before this one, else
\* the answer of old_redo_read_buffer_filter.  db_valid: OidIsValid of the
\* block's database id.  s.in_buffers: BufTableLookup finds the block.
\* s.garbage: what is read as n_blocks from a response that is not a
\* NeonNblocksResponse.

\* Lines 2720-2737 with the publication moved behind LWLockRelease.
FilterPublish_AfterRelease(s, end_recptr, blkno) ==
    LET l == [Ev(Ev(s, "LWLockAcquire", blkno, 0), "BufTableLookup", blkno, 0)
                 EXCEPT !.locks = @ + 1]
        e == IF ~s.in_buffers THEN Ev(l, "lfc_evict", blkno, 0) ELSE l
    IN  SetLastWrittenLSN(
            [Ev(e, "LWLockRelease", blkno, 0) EXCEPT !.locks = @ - 1],
            end_recptr, blkno)

\* Lines 2720-2737 with the publication made only for a block whose redo
\* is skipped.
FilterPublish_OnlySkipped(s, end_recptr, blkno) ==
    LET l == [Ev(Ev(s, "LWLockAcquire", blkno, 0), "BufTableLookup", blkno, 0)
                 EXCEPT !.locks = @ + 1]
        e == IF ~s.in_buffers
             THEN Ev(SetLastWrittenLSN(l, end_recptr, blkno),
                     "lfc_evict", blkno, 0)
             ELSE l
    IN  [Ev(e, "LWLockRelease", blkno, 0) EXCEPT !.locks = @ - 1]

\* lines 2720-2737
FilterPublish(s, end_recptr, blkno) ==
    LET l == [Ev(Ev(s, "LWLockAcquire", blkno, 0), "BufTableLookup", blkno, 0)
                 EXCEPT !.locks = @ + 1]
        p == SetLastWrittenLSN(l, end_recptr, blkno)
        e == IF ~s.in_buffers THEN Ev(p, "lfc_evict", blkno, 0) ELSE p
    IN  [Ev(e, "LWLockRelease", blkno, 0) EXCEPT !.locks = @ - 1]

neon_redo_read_buffer_filter(s, end_recptr, db_valid, blkno) ==
    LET no_redo_needed == ~s.in_buffers
        Returns(t) ==
            IF Left(t) THEN t
            ELSE [t EXCEPT !.result = "returned",
                           !.returned = IF no_redo_needed THEN "true"
                                        ELSE "false"]
        Answered(r) ==
            IF r.s.starved THEN r.s
            ELSE LET a == AssertThat(r.s, r.resp.rtag = "Nblocks")
                     n_blocks == IF r.resp.rtag = "Nblocks" THEN r.resp.blk
                                 ELSE a.garbage
                 IN  SetLastWrittenLSNForRelation(
                         set_cached_relsize(AssertThat(a, n_blocks > blkno),
                                            n_blocks),
                         end_recptr)
        Sizes(t) ==
            IF t.relsize # NotCached
            THEN IF t.relsize < blkno + 1
                 THEN SetLastWrittenLSNForRelation(
                          update_cached_relsize(t, blkno + 1), end_recptr)
                 ELSE t
            ELSE Answered(page_server_request(
                     t, [blk |-> REL_METADATA_PSEUDO_BLOCKNO,
                         lsn |-> end_recptr, latest |-> FALSE,
                         err |-> t.srv_err, kind |-> "Nblocks",
                         size |-> t.srv_size]))
    IN  IF s.old_filter = "true"
        THEN [s EXCEPT !.result = "returned", !.returned = "true"]
        ELSE IF ~db_valid
        THEN [s EXCEPT !.result = "returned", !.returned = "false"]
        ELSE Returns(Sizes(FilterPublish(s, end_recptr, blkno)))

----------------------------------------------------------------------------
(* readahead_buffer_resize *)

\* The copy loop without the assignment of line 421: a copied REQUESTED
\* slot does not move ring_receive down.
RECURSIVE ResizeCopy_KeepsReceive(_, _, _, _)
ResizeCopy_KeepsReceive(old, n, end, nfree) ==
    IF end >= old.ring_last /\ end >= 0 /\ nfree # 0
    THEN LET slot == old.ring[Pos(old, end)]
             o1 == Access(old, end)
         IN  IF slot.status = "UNUSED"
             THEN ResizeCopy_KeepsReceive(o1, n, end - 1, nfree)
             ELSE LET nf == nfree - 1
                      ring1 == [n.ring EXCEPT
                                   ![nf] = [slot EXCEPT !.my_ring_index = nf]]
                      n1 == [n EXCEPT
                               !.ring = ring1,
                               !.prf_hash = prfh_insert(@, ring1, nf),
                               !.n_requests_inflight =
                                   IF slot.status = "REQUESTED" THEN @ + 1 ELSE @,
                               !.n_responses_buffered =
                                   IF slot.status = "RECEIVED" THEN @ + 1 ELSE @,
                               !.ring_last = @ - 1,
                               !.n_unused = @ - 1]
                  IN  ResizeCopy_KeepsReceive(o1, n1, end - 1, nf)
    ELSE [old |-> old, n |-> n, end |-> end]

\* The copy loop, lines 394-433: n is the new state, end the old ring index.
RECURSIVE ResizeCopy(_, _, _, _)
ResizeCopy(old, n, end, nfree) ==
    IF end >= old.ring_last /\ end >= 0 /\ nfree # 0
    THEN LET slot == old.ring[Pos(old, end)]
             o1 == Access(old, end)
         IN  IF slot.status = "UNUSED"
             THEN ResizeCopy(o1, n, end - 1, nfree)
             ELSE LET nf == nfree - 1
                      ring1 == [n.ring EXCEPT
                                   ![nf] = [slot EXCEPT !.my_ring_index = nf]]
                      n1 == [n EXCEPT
                               !.ring = ring1,
                               !.prf_hash = prfh_insert(@, ring1, nf),
                               !.n_requests_inflight =
                                   IF slot.status = "REQUESTED" THEN @ + 1 ELSE @,
                               !.ring_receive =
                                   IF slot.status = "REQUESTED" THEN @ - 1 ELSE @,
                               !.n_responses_buffered =
                                   IF slot.status = "RECEIVED" THEN @ + 1 ELSE @,
                               !.ring_last = @ - 1,
                               !.n_unused = @ - 1]
                  IN  ResizeCopy(o1, n1, end - 1, nf)
    ELSE [old |-> old, n |-> n, end |-> end]

\* The loop of lines 435-438 over the slots of the old ring that were not
\* copied.
RECURSIVE ResizeDiscard(_, _)
ResizeDiscard(old, end) ==
    IF end >= old.ring_last /\ end >= 0
    THEN ResizeDiscard(prefetch_set_unused(old, end), end - 1)
    ELSE old

readahead_buffer_resize(s, newsize) ==
    LET \* the new state, with what the calls on the old state recorded
        Swap(w, n, d) ==
            [n EXCEPT !.resizes =
                          Append(@, [before |-> Snapshot(s),
                                     waited |-> Snapshot(w),
                                     after |-> Snapshot(n),
                                     newsize |-> newsize]),
                      !.compactions = d.compactions,
                      !.disconnects = d.disconnects,
                      !.bad_access = d.bad_access,
                      !.bad_set_unused = d.bad_set_unused,
                      !.nretired = d.nretired,
                      !.ncompact_moved = d.ncompact_moved,
                      !.result = "resized"]
        Copied(w, c) == Swap(w, c.n, ResizeDiscard(c.old, c.end))
        Build(w) ==
            Copied(w, ResizeCopy(w,
                       [w EXCEPT
                          !.cap = newsize,
                          !.ring = [i \in 0..(newsize - 1) |-> EmptySlot],
                          !.prf_hash = {},
                          !.n_unused = newsize,
                          !.n_requests_inflight = 0,
                          !.n_responses_buffered = 0,
                          !.ring_last = newsize,
                          !.ring_unused = newsize,
                          !.ring_receive = newsize,
                          !.ring_flush = newsize],
                       w.ring_unused - 1, newsize))
    IN  IF s.n_requests_inflight > newsize
        THEN Build(prefetch_wait_for(s, s.ring_unused - newsize).s)
        ELSE Build(s)

----------------------------------------------------------------------------
(* State *)

VARIABLES
    readahead_buffer_size,      \* the GUC: capacity of the ring
    flush_every_n_requests,     \* the GUC: threshold of the automatic flush
    prf_buffer,                 \* MyPState->prf_buffer[]
    ring_unused, ring_flush, ring_receive, ring_last,
    n_responses_buffered, n_requests_inflight, n_unused,
    prf_hash,                   \* MyPState->prf_hash
    prefetch_lsn,
    wire,                       \* requests sent on the connection, unanswered
    unflushed,                  \* the last unflushed of them are still in the
                                \* output buffer: no flush has followed their send
    lwlsn,                      \* last-written LSN of each block
    RecoveryInProgress, am_walsender,
    crashed,                    \* the backend has terminated abnormally, or
                                \* waits for a response that never comes
    nresized,                   \* calls of readahead_buffer_resize so far
    relsize,                    \* the relation-size cache entry of the
                                \* relation's fork; NotCached when it has none
    xlog_insert, xlog_flush,    \* GetXLogInsertRecPtr(), GetFlushRecPtr()
    unlogged_build_phase,
    unlogged_build_rel,         \* "NULL" or "reln"
    smgr_relpersistence,        \* reln->smgr_relpersistence
    forknum                     \* the fork of the relation that is followed

smgr_vars == <<relsize, xlog_insert, xlog_flush, unlogged_build_phase,
               unlogged_build_rel, smgr_relpersistence, forknum>>

vars == <<readahead_buffer_size, flush_every_n_requests, prf_buffer,
          ring_unused, ring_flush, ring_receive, ring_last,
          n_responses_buffered, n_requests_inflight, n_unused, prf_hash,
          prefetch_lsn, wire, unflushed, lwlsn, RecoveryInProgress,
          am_walsender,
          crashed, nresized, relsize, xlog_insert, xlog_flush,
          unlogged_build_phase, unlogged_build_rel, smgr_relpersistence,
          forknum>>

\* What an entry point records while it runs.  fail: the ordinals of its
\* transport calls that fail; srv_err: the page server answers the requests
\* sent by this entry point with an ErrorResponse.
Observations(fail, srv_err) ==
    [fail |-> fail, srv_err |-> srv_err, ncall |-> 0,
     sent |-> << >>, issued |-> << >>,
     reg_waits |-> 0, nrecv |-> 0, ndisc |-> 0, nretired |-> 0,
     ncompact_moved |-> 0, hits |-> 0, expired |-> 0, misses |-> 0,
     duplicates |-> 0, bad_access |-> FALSE, bad_set_unused |-> FALSE,
     overwrite |-> FALSE, compactions |-> << >>, disconnects |-> << >>,
     wait_fails |-> << >>, resizes |-> << >>, wait_returns |-> << >>,
     unreachable |-> FALSE, starved |-> FALSE, served |-> EmptySlot,
     buffer |-> NoResp, lfc_writes |-> 0, result |-> "none",
     events |-> << >>, returned |-> "none", n_blocks |-> -1,
     \* what the environment answers during the entry point
     srv_size |-> 0, ShutdownRequestPending |-> FALSE,
     XLogInsertAllowed |-> TRUE, mdexists |-> FALSE, md_nblocks |-> 0,
     cluster_full |-> FALSE, in_buffers |-> FALSE,
     old_filter |-> "none", garbage |-> 0, locks |-> 0,
     assert_failed |-> FALSE, recv_unflushed |-> FALSE,
     rooms |-> << >>, sent_unflushed |-> FALSE,
     published_unflushed |-> FALSE, sync_recvs |-> << >>]

\* The record the operators work on: the current state, and fresh
\* observation fields.
Cur(fail, srv_err) ==
    [cap |-> readahead_buffer_size, fen |-> flush_every_n_requests,
     ring |-> prf_buffer,
     ring_unused |-> ring_unused, ring_flush |-> ring_flush,
     ring_receive |-> ring_receive, ring_last |-> ring_last,
     n_responses_buffered |-> n_responses_buffered,
     n_requests_inflight |-> n_requests_inflight, n_unused |-> n_unused,
     prf_hash |-> prf_hash, prefetch_lsn |-> prefetch_lsn, wire |-> wire,
     unflushed |-> unflushed,
     lwlsn |-> lwlsn, recovery |-> RecoveryInProgress,
     walsender |-> am_walsender,
     relsize |-> relsize, xlog_insert |-> xlog_insert,
     xlog_flush |-> xlog_flush,
     unlogged_build_phase |-> unlogged_build_phase,
     unlogged_build_rel |-> unlogged_build_rel,
     smgr_relpersistence |-> smgr_relpersistence, forknum |-> forknum]
        @@ Observations(fail, srv_err)

\* The state an entry point leaves behind.
Install(s) ==
    /\ readahead_buffer_size' = s.cap
    /\ prf_buffer' = s.ring
    /\ ring_unused' = s.ring_unused
    /\ ring_flush' = s.ring_flush
    /\ ring_receive' = s.ring_receive
    /\ ring_last' = s.ring_last
    /\ n_responses_buffered' = s.n_responses_buffered
    /\ n_requests_inflight' = s.n_requests_inflight
    /\ n_unused' = s.n_unused
    /\ prf_hash' = s.prf_hash
    /\ prefetch_lsn' = s.prefetch_lsn
    /\ wire' = s.wire
    /\ unflushed' = s.unflushed
    /\ crashed' = (s.result \in {"crash", "PANIC"} \/ s.starved)
    /\ nresized' = IF s.result = "resized" THEN nresized + 1 ELSE nresized
    /\ lwlsn' = s.lwlsn
    /\ relsize' = s.relsize
    /\ xlog_insert' = s.xlog_insert
    /\ xlog_flush' = s.xlog_flush
    /\ unlogged_build_phase' = s.unlogged_build_phase
    /\ unlogged_build_rel' = s.unlogged_build_rel
    /\ smgr_relpersistence' = s.smgr_relpersistence
    /\ UNCHANGED <<flush_every_n_requests, RecoveryInProgress, am_walsender,
                   forknum>>

\* The relation as the backend opens it: a permanent relation with no
\* relation-size cache entry, no unlogged build in progress (lines 104-105),
\* and the WAL inserted and flushed up to LsnAt(MaxLsnIdx).
InitStorage ==
    /\ relsize = NotCached
    /\ xlog_insert = LsnAt(MaxLsnIdx)
    /\ xlog_flush = LsnAt(MaxLsnIdx)
    /\ unlogged_build_phase = "NOT_IN_PROGRESS"
    /\ unlogged_build_rel = "NULL"
    /\ smgr_relpersistence = "PERMANENT"
    /\ forknum = "MAIN"

\* neon_init(), and the process-wide settings the backend starts with.
Init ==
    /\ readahead_buffer_size \in CapSizes
    /\ flush_every_n_requests \in 0..MaxFlushEvery
    /\ prf_buffer = [i \in 0..(readahead_buffer_size - 1) |-> EmptySlot]
    /\ ring_unused = 0 /\ ring_flush = 0 /\ ring_receive = 0 /\ ring_last = 0
    /\ n_responses_buffered = 0 /\ n_requests_inflight = 0
    /\ n_unused = readahead_buffer_size
    /\ prf_hash = {}
    /\ prefetch_lsn = 0
    /\ wire = << >>
    /\ unflushed = 0
    /\ lwlsn = [b \in LwBlocks |-> LsnAt(3)]
    /\ RecoveryInProgress \in BOOLEAN
    /\ am_walsender \in BOOLEAN
    /\ ~(RecoveryInProgress /\ am_walsender)
    /\ crashed = FALSE
    /\ nresized = 0
    /\ InitStorage

----------------------------------------------------------------------------
(* Actions: one per entry point *)

\* The entry points that register a request are disabled once ring_unused
\* has reached MaxRing (a resize starts the ring indexes afresh).
CanRegister == ~crashed /\ ring_unused < MaxRing

Prefetch(rel, b, lfc, fail) ==
    /\ CanRegister
    /\ Install(neon_prefetch(Cur(fail, FALSE), rel, b, lfc))

Read(rel, b, lfc, fail, srv_err) ==
    /\ CanRegister
    /\ Install(neon_read(Cur(fail, srv_err), rel, b, lfc))

ReadAtLsn(b, lsn, latest, fail) ==
    /\ CanRegister
    /\ Install(neon_read_at_lsn(Cur(fail, FALSE), b, lsn, latest))

Resize(newsize, fail) ==
    /\ ~crashed
    /\ nresized < MaxResizes
    /\ Install(readahead_buffer_resize(Cur(fail, FALSE), newsize))

\* The connection drops while the backend is not inside a transport call.
Disconnect ==
    /\ ~crashed
    /\ Install(pageserver_disconnect(Cur({}, FALSE)))

\* SetLastWrittenLSNForBlock: the block is written out at a later LSN.
SetLastWrittenLSNForBlock(b, lsn) ==
    /\ ~crashed
    /\ lsn > lwlsn[b]
    /\ lwlsn' = [lwlsn EXCEPT ![b] = lsn]
    /\ UNCHANGED <<readahead_buffer_size, flush_every_n_requests, prf_buffer,
                   ring_unused, ring_flush, ring_receive, ring_last,
                   n_responses_buffered, n_requests_inflight, n_unused,
                   prf_hash, prefetch_lsn, wire, unflushed,
                   RecoveryInProgress,
                   am_walsender, crashed, nresized, smgr_vars>>

\* LSNs neon_read_at_lsn is called with.
RequestLsns == WrittenLsns \cup { nm_adjust_lsn(l) : l \in WrittenLsns }

\* The calls that stay local (a relation that is not permanent, a block found
\* in the local file cache) make no transport call: their fail and srv_err
\* inputs are immaterial.
StaysLocal(rel, lfc) == rel # "PERMANENT" \/ lfc

Next ==
    \/ \E rel \in RelPersistences, b \in Blocks, lfc \in BOOLEAN :
          StaysLocal(rel, lfc) /\ Prefetch(rel, b, lfc, {})
    \/ \E b \in Blocks, fail \in FateSets :
          Prefetch("PERMANENT", b, FALSE, fail)
    \/ \E rel \in RelPersistences, b \in Blocks, lfc \in BOOLEAN :
          StaysLocal(rel, lfc) /\ Read(rel, b, lfc, {}, FALSE)
    \/ \E b \in Blocks, fail \in FateSets, srv_err \in BOOLEAN :
          Read("PERMANENT", b, FALSE, fail, srv_err)
    \/ \E b \in Blocks, lsn \in RequestLsns, latest \in BOOLEAN,
          fail \in FateSets : ReadAtLsn(b, lsn, latest, fail)
    \/ \E newsize \in CapSizes, fail \in FateSets : Resize(newsize, fail)
    \/ Disconnect
    \/ \E b \in 1..MaxWritten, lsn \in WrittenLsns :
          SetLastWrittenLSNForBlock(b, lsn)

Spec == Init /\ [][Next]_vars

\* prefetch_register_buffer called on its own with a forced LSN, as
\* neon_read_at_lsn calls it.
RegisterBuffer(b, force_latest, force_lsn, fail) ==
    /\ CanRegister
    /\ Install(prefetch_register_buffer(Cur(fail, FALSE), b,
                                        Forced(force_latest, force_lsn)).s)

NextReg ==
    \/ \E b \in Blocks, fail \in FateSets :
          Prefetch("PERMANENT", b, FALSE, fail)
    \/ \E b \in Blocks, fail \in FateSets :
          Read("PERMANENT", b, FALSE, fail, FALSE)
    \/ Disconnect
    \/ \E b \in 1..MaxWritten, lsn \in WrittenLsns :
          SetLastWrittenLSNForBlock(b, lsn)
    \/ \E b \in Blocks, force_lsn \in RequestLsns, force_latest \in BOOLEAN,
          fail \in FateSets : RegisterBuffer(b, force_latest, force_lsn, fail)

SpecReg == Init /\ [][NextReg]_vars

\* The program started with a ring of MaxCap + 1 slots, which
\* readahead_buffer_resize can shrink below the number of slots in use.
InitResize ==
    /\ readahead_buffer_size = MaxCap + 1
    /\ flush_every_n_requests \in 0..MaxFlushEvery
    /\ prf_buffer = [i \in 0..(readahead_buffer_size - 1) |-> EmptySlot]
    /\ ring_unused = 0 /\ ring_flush = 0 /\ ring_receive = 0 /\ ring_last = 0
    /\ n_responses_buffered = 0 /\ n_requests_inflight = 0
    /\ n_unused = readahead_buffer_size
    /\ prf_hash = {}
    /\ prefetch_lsn = 0
    /\ wire = << >>
    /\ unflushed = 0
    /\ lwlsn = [b \in LwBlocks |-> LsnAt(3)]
    /\ RecoveryInProgress \in BOOLEAN
    /\ am_walsender \in BOOLEAN
    /\ ~(RecoveryInProgress /\ am_walsender)
    /\ crashed = FALSE
    /\ nresized = 0
    /\ InitStorage

SpecResize == InitResize /\ [][Next]_vars

\* Last-written LSNs at each place nm_adjust_lsn tells apart: just after the
\* short header of a page, after the long header of a segment, the same
\* offsets where the other header is, and elsewhere.
OracleLsns ==
    WrittenLsns
    \cup { wal_segment_size + SizeOfXLogLongPHD,
           wal_segment_size + XLOG_BLCKSZ + SizeOfXLogShortPHD,
           wal_segment_size + XLOG_BLCKSZ + SizeOfXLogLongPHD }

\* The program started in a backend of any kind (in recovery or not, a WAL
\* sender or not), with block 1 last written at any of OracleLsns.
InitLsn ==
    /\ readahead_buffer_size \in CapSizes
    /\ flush_every_n_requests \in 0..MaxFlushEvery
    /\ prf_buffer = [i \in 0..(readahead_buffer_size - 1) |-> EmptySlot]
    /\ ring_unused = 0 /\ ring_flush = 0 /\ ring_receive = 0 /\ ring_last = 0
    /\ n_responses_buffered = 0 /\ n_requests_inflight = 0
    /\ n_unused = readahead_buffer_size
    /\ prf_hash = {}
    /\ prefetch_lsn = 0
    /\ wire = << >>
    /\ unflushed = 0
    /\ \E l \in OracleLsns :
          lwlsn = [b \in LwBlocks |-> IF b = 1 THEN l ELSE LsnAt(3)]
    /\ RecoveryInProgress \in BOOLEAN
    /\ am_walsender \in BOOLEAN
    /\ crashed = FALSE
    /\ nresized = 0
    /\ InitStorage

NextLsn ==
    \/ \E b \in Blocks : Prefetch("PERMANENT", b, FALSE, {})
    \/ \E b \in 1..MaxWritten, lsn \in OracleLsns :
          SetLastWrittenLSNForBlock(b, lsn)

SpecLsn == InitLsn /\ [][NextLsn]_vars

----------------------------------------------------------------------------
(* The storage-manager entry points on the relation fork that is followed *)

\* The record an entry point starts from, with what the environment
\* answers during the call.
Given(fail, srv_err, answers) == answers @@ Cur(fail, srv_err)

\* XLogInsertAllowed() is true outside recovery; in recovery it is true
\* only in the process that writes the end-of-recovery checkpoint.
InsertAllowed == IF RecoveryInProgress THEN BOOLEAN ELSE {TRUE}

\* No further record is logged once the insert position has reached
\* LsnAt(MaxLsnIdx + MaxWal).
CanLog == xlog_insert < LsnAt(MaxLsnIdx + MaxWal)

RelSizes == 0..(NumBlocks - 1)

WalEnv(shutdown, allowed) ==
    [ShutdownRequestPending |-> shutdown, XLogInsertAllowed |-> allowed]

Write(blk, page, shutdown, allowed, mdex) ==
    /\ ~crashed /\ CanLog
    /\ Install(neon_write(Given({}, FALSE,
                                WalEnv(shutdown, allowed)
                                    @@ [mdexists |-> mdex]),
                          blk, page))

\* The size neon_nblocks() finds: the cached one, else the page server's.
KnownSize(size) == IF relsize # NotCached THEN relsize ELSE size

\* neon_extend is called with a block at or beyond the current end of the
\* relation (lines 1647-1653).
Extend(blk, page, shutdown, allowed, full, size, fail, srv_err) ==
    /\ ~crashed /\ CanLog
    /\ blk >= KnownSize(size)
    /\ Install(neon_extend(Given(fail, srv_err,
                                 WalEnv(shutdown, allowed)
                                     @@ [cluster_full |-> full,
                                         srv_size |-> size]),
                           blk, page))

Nblocks(size, fail, srv_err) ==
    /\ ~crashed
    /\ Install(neon_nblocks(Given(fail, srv_err,
                                  [srv_size |-> size, md_nblocks |-> size])))

\* size = -1: the page server does not know the relation fork.
Exists(mdex, size, fail, srv_err) ==
    /\ ~crashed
    /\ Install(neon_exists(Given(fail, srv_err,
                                 [mdexists |-> mdex, srv_size |-> size])))

Create(isRedo) ==
    /\ ~crashed
    /\ Install(neon_create(Cur({}, FALSE), isRedo))

Unlink ==
    /\ ~crashed
    /\ Install(neon_unlink(Cur({}, FALSE), smgr_relpersistence = "TEMP"))

Open ==
    /\ ~crashed
    /\ Install(neon_open(Cur({}, FALSE)))

Close ==
    /\ ~crashed
    /\ Install(neon_close(Cur({}, FALSE)))

Writeback(blk) ==
    /\ ~crashed
    /\ Install(neon_writeback(Cur({}, FALSE), blk))

Truncate(nblocks) ==
    /\ ~crashed
    /\ Install(neon_truncate(Cur({}, FALSE), nblocks))

Immedsync ==
    /\ ~crashed
    /\ Install(neon_immedsync(Cur({}, FALSE)))

SmgrPrefetch(b, lfc, fail) ==
    /\ CanRegister
    /\ Install(neon_prefetch(Cur(fail, FALSE), smgr_relpersistence, b, lfc))

SmgrRead(b, lfc, fail, srv_err) ==
    /\ CanRegister
    /\ Install(neon_read(Cur(fail, srv_err), smgr_relpersistence, b, lfc))

StartUnloggedBuild(size, fail, srv_err) ==
    /\ ~crashed
    /\ Install(neon_start_unlogged_build(
                   Given(fail, srv_err,
                         [srv_size |-> size, md_nblocks |-> size])))

\* The callers keep to the Assert()s of lines 2498 and 2509: phase 1 is
\* finished for the relation whose build was started.
FinishUnloggedBuildPhase1 ==
    /\ ~crashed
    /\ unlogged_build_rel = "reln"
    /\ unlogged_build_phase \in {"PHASE_1", "NOT_PERMANENT"}
    /\ Install(neon_finish_unlogged_build_phase_1(Cur({}, FALSE)))

\* The callers keep to the Assert()s of lines 2527 and 2539.
EndUnloggedBuild ==
    /\ ~crashed
    /\ unlogged_build_rel = "reln"
    /\ unlogged_build_phase \in {"PHASE_2", "NOT_PERMANENT"}
    /\ Install(neon_end_unlogged_build(Cur({}, FALSE)))

AtEOXact(event) ==
    /\ ~crashed
    /\ Install(AtEOXact_neon(Cur({}, FALSE), event))

\* WAL redo calls the filter for a block a record refers to.
RedoReadBufferFilter(end_recptr, db_valid, blk, in_buf, old, size, garbage, fail, srv_err) ==
    /\ ~crashed
    /\ RecoveryInProgress
    /\ Install(neon_redo_read_buffer_filter(
                   Given(fail, srv_err,
                         [in_buffers |-> in_buf, old_filter |-> old,
                          srv_size |-> size, garbage |-> garbage]),
                   end_recptr, db_valid, blk))

InitSmgr ==
    /\ readahead_buffer_size = 2
    /\ flush_every_n_requests = 0
    /\ prf_buffer = [i \in 0..(readahead_buffer_size - 1) |-> EmptySlot]
    /\ ring_unused = 0 /\ ring_flush = 0 /\ ring_receive = 0 /\ ring_last = 0
    /\ n_responses_buffered = 0 /\ n_requests_inflight = 0
    /\ n_unused = readahead_buffer_size
    /\ prf_hash = {}
    /\ prefetch_lsn = 0
    /\ wire = << >>
    /\ unflushed = 0
    /\ lwlsn = [b \in LwBlocks |-> LsnAt(3)]
    /\ RecoveryInProgress \in BOOLEAN
    /\ am_walsender = FALSE
    /\ crashed = FALSE
    /\ nresized = 0
    /\ relsize = NotCached
    /\ xlog_insert = LsnAt(MaxLsnIdx)
    /\ xlog_flush = LsnAt(MaxLsnIdx)
    /\ unlogged_build_phase = "NOT_IN_PROGRESS"
    /\ unlogged_build_rel = "NULL"
    /\ smgr_relpersistence \in RelPersistences
    /\ forknum \in ForkNumbers

\* The answers of the page server matter only to a call that asks it.
AsksServer(size, fail, srv_err) ==
    \/ smgr_relpersistence \in {"0", "PERMANENT"} /\ relsize = NotCached
    \/ size = 0 /\ fail = {} /\ ~srv_err

\* Eviction and extension of pages, with WAL-logging.
InitWal == InitSmgr /\ smgr_relpersistence \in {"0", "PERMANENT"}

NextWal ==
    \/ \E blk \in RelSizes, page \in Pages, shutdown \in BOOLEAN,
          allowed \in InsertAllowed, mdex \in BOOLEAN :
          Write(blk, page, shutdown, allowed, mdex)
    \/ \E blk \in RelSizes, page \in Pages, shutdown \in BOOLEAN,
          allowed \in InsertAllowed, full \in BOOLEAN, size \in RelSizes,
          fail \in FateSets, srv_err \in BOOLEAN :
          /\ AsksServer(size, fail, srv_err)
          /\ Extend(blk, page, shutdown, allowed, full, size, fail, srv_err)
    \/ \E isRedo \in BOOLEAN : Create(isRedo)
    \/ Unlink

SpecWal == InitWal /\ [][NextWal]_vars

\* WAL redo on a permanent relation, next to reads and prefetches.
InitRedo ==
    /\ InitSmgr
    /\ smgr_relpersistence = "PERMANENT"
    /\ forknum = "MAIN"
    /\ RecoveryInProgress

\* End positions of the records that are replayed.
RedoLsns == { LsnAt(MaxLsnIdx), LsnAt(MaxLsnIdx + 1) }

NextRedo ==
    \/ \E end_recptr \in RedoLsns, db_valid \in BOOLEAN, blk \in 0..1,
          in_buf \in BOOLEAN, old \in {"none", "false", "true"},
          size \in 0..2, garbage \in 0..2, fail \in FateSets,
          srv_err \in BOOLEAN :
          /\ AsksServer(size, fail, srv_err)
          /\ garbage = 0 \/ srv_err
          /\ (old = "true" \/ ~db_valid) =>
                 (~in_buf /\ size = 0 /\ fail = {} /\ ~srv_err)
          /\ RedoReadBufferFilter(end_recptr, db_valid, blk, in_buf, old,
                                  size, garbage, fail, srv_err)
    \/ \E b \in 1..MaxWritten, lfc \in BOOLEAN :
          SmgrPrefetch(b, lfc, {})
    \/ \E b \in 1..MaxWritten, lfc \in BOOLEAN :
          SmgrRead(b, lfc, {}, FALSE)
    \/ Unlink

SpecRedo == InitRedo /\ [][NextRedo]_vars

\* The whole adaptor surface, for a relation of any persistence.
InitRel == InitSmgr /\ forknum = "MAIN" /\ ~RecoveryInProgress

NextRel ==
    \/ \E blk \in 0..1, page \in {ZeroPage, PageOf(LsnAt(3), BLCKSZ - 64, 1, 0)},
          mdex \in BOOLEAN : Write(blk, page, FALSE, TRUE, mdex)
    \/ \E blk \in 0..1, size \in 0..1, fail \in FateSets :
          /\ AsksServer(size, fail, FALSE)
          /\ Extend(blk, ZeroPage, FALSE, TRUE, FALSE, size, fail, FALSE)
    \/ \E size \in 0..1, fail \in FateSets, srv_err \in BOOLEAN :
          AsksServer(size, fail, srv_err) /\ Nblocks(size, fail, srv_err)
    \/ \E mdex \in BOOLEAN, size \in -1..0, fail \in FateSets,
          srv_err \in BOOLEAN :
          /\ size = -1 \/ AsksServer(size, fail, srv_err)
          /\ Exists(mdex, size, fail, srv_err)
    \/ \E isRedo \in BOOLEAN : Create(isRedo)
    \/ Unlink
    \/ Open
    \/ Close
    \/ \E blk \in 0..1 : Writeback(blk)
    \/ \E nblocks \in 0..1 : Truncate(nblocks)
    \/ Immedsync
    \/ \E b \in 1..MaxWritten, lfc \in BOOLEAN, fail \in FateSets :
          SmgrPrefetch(b, lfc, fail)
    \/ \E b \in 1..MaxWritten, lfc \in BOOLEAN, fail \in FateSets,
          srv_err \in BOOLEAN : SmgrRead(b, lfc, fail, srv_err)
    \/ \E size \in 0..1, fail \in FateSets, srv_err \in BOOLEAN :
          /\ AsksServer(size, fail, srv_err)
          /\ StartUnloggedBuild(size, fail, srv_err)
    \/ FinishUnloggedBuildPhase1
    \/ EndUnloggedBuild
    \/ \E event \in XactEvents : AtEOXact(event)

SpecRel == InitRel /\ [][NextRel]_vars

\* A record is inserted into the WAL by the backend's other work (a heap
\* insert, an index build): the insert position moves ahead of the flush
\* position.
WalInsert ==
    /\ ~crashed /\ CanLog
    /\ xlog_insert' = xlog_insert + 8
    /\ UNCHANGED <<readahead_buffer_size, flush_every_n_requests, prf_buffer,
                   ring_unused, ring_flush, ring_receive, ring_last,
                   n_responses_buffered, n_requests_inflight, n_unused,
                   prf_hash, prefetch_lsn, wire, unflushed, lwlsn,
                   RecoveryInProgress, am_walsender, crashed, nresized,
                   relsize, xlog_flush, unlogged_build_phase,
                   unlogged_build_rel, smgr_relpersistence, forknum>>

\* The pages a backend hands to the storage manager: a page stamped with
\* an LSN carries the end position of a record that has been inserted,
\* flushed or not (_bt_blwritepage logs the page and extends the relation
\* without flushing the WAL, lines 1428-1434).
LoggedPages ==
    { p \in Pages \cup { PageOf(LsnAt(k), BLCKSZ - 64, 1, 0) :
                            k \in (MaxLsnIdx + 1)..(MaxLsnIdx + MaxWal) } :
        PageXLogRecPtrGet(p) <= xlog_insert }

\* smgrwrite() of a page of the main fork by a normal backend: the write
\* inserts no record, whatever the insert position.
WriteOut(blk, page) ==
    /\ ~crashed
    /\ Install(neon_write(Given({}, FALSE, WalEnv(FALSE, TRUE)), blk, page))

\* A normal backend (not in recovery, not a WAL sender) works on a
\* permanent relation while the WAL runs ahead of its flush position.
InitFlush ==
    /\ InitSmgr
    /\ smgr_relpersistence = "PERMANENT"
    /\ forknum = "MAIN"
    /\ ~RecoveryInProgress

NextFlush ==
    \/ WalInsert
    \/ \E blk \in 0..1, page \in LoggedPages : WriteOut(blk, page)
    \/ \E blk \in 0..1, page \in LoggedPages, size \in 0..1,
          fail \in FateSets :
          /\ AsksServer(size, fail, FALSE)
          /\ Extend(blk, page, FALSE, TRUE, FALSE, size, fail, FALSE)
    \/ \E nblocks \in 0..1 : Truncate(nblocks)
    \/ \E size \in 0..1, fail \in FateSets :
          AsksServer(size, fail, FALSE) /\ Nblocks(size, fail, FALSE)
    \/ \E size \in -1..0, fail \in FateSets :
          /\ size = -1 \/ AsksServer(size, fail, FALSE)
          /\ Exists(FALSE, size, fail, FALSE)
    \/ Unlink
    \/ \E b \in 1..MaxWritten, fail \in FateSets :
          SmgrPrefetch(b, FALSE, fail)
    \/ \E b \in 1..MaxWritten, fail \in FateSets :
          SmgrRead(b, FALSE, fail, FALSE)

SpecFlush == InitFlush /\ [][NextFlush]_vars


----------------------------------------------------------------------------
(* Properties *)

\* The outcome of neon_read_at_lsn(b, lsn, latest) called in the current
\* state, with the transport failing at the call ordinals in fail.
ReadOutcome(b, lsn, latest, fail) ==
    neon_read_at_lsn(Cur(fail, FALSE), b, lsn, latest)

HasSlot(b) == prfh_lookup(prf_hash, prf_buffer, b) # NoEntry
SlotOf(b) == prf_buffer[prfh_lookup(prf_hash, prf_buffer, b)]

\* A read of block b at lsn finds a slot stamped below lsn.
StaleSlotFor(b, lsn) ==
    CanRegister /\ HasSlot(b) /\ SlotOf(b).effective_request_lsn < lsn

\* The outcome of such a read, the page server answering with an
\* ErrorResponse when srv_err.
StaleRead(b, lsn, fail, srv_err) ==
    neon_read_at_lsn(Cur(fail, srv_err), b, lsn, TRUE)

StaleReadAlways(b, lsn, r) ==
    /\ r.expired = 1
    /\ \A i \in DOMAIN r.ring :
          ~(r.ring[i].buftag = b /\ r.ring[i].effective_request_lsn < lsn)
    /\ Len(r.sent) >= 1
    /\ \A i \in DOMAIN r.sent :
          r.sent[i].blk = b /\ r.sent[i].lsn = lsn /\ r.sent[i].latest

\* The rest of C2, for a read during which no transport call fails: the old
\* slot is retired after its response arrived, one request is sent, and its
\* response is what the read returns (or raises).
StaleReadUndisturbed(b, lsn, r, was_requested) ==
    /\ ~r.bad_set_unused
    /\ was_requested => r.nrecv >= 2
    /\ Len(r.sent) = 1
    /\ IF r.srv_err
       THEN r.result = "error" /\ r.served.response = PageServerAnswer(r.sent[1])
       ELSE r.result = "page" /\ r.buffer = PageServerAnswer(r.sent[1])

SlotAt(k) == prf_buffer[k % readahead_buffer_size]
SlotsWith(status) ==
    { i \in DOMAIN prf_buffer : prf_buffer[i].status = status }

\* C3: between pipeline operations ring_last <= ring_receive <= ring_flush
\* <= ring_unused, and ring_unused - ring_last <= readahead_buffer_size.
C3_RingOrdering ==
    ~crashed =>
        /\ ring_last <= ring_receive
        /\ ring_receive <= ring_flush
        /\ ring_flush <= ring_unused
        /\ ring_unused - ring_last <= readahead_buffer_size

\* C4: between pipeline operations n_requests_inflight is the number of
\* REQUESTED slots, which is ring_unused - ring_receive, and
\* n_responses_buffered is the number of RECEIVED slots, all of which lie in
\* [ring_last, ring_receive).
C4_CounterCoherence ==
    ~crashed =>
        /\ n_requests_inflight = Cardinality(SlotsWith("REQUESTED"))
        /\ n_requests_inflight = ring_unused - ring_receive
        /\ n_responses_buffered = Cardinality(SlotsWith("RECEIVED"))
        /\ n_responses_buffered =
              Cardinality({ k \in ring_last..(ring_receive - 1) :
                              SlotAt(k).status = "RECEIVED" })

\* C5: between pipeline operations the tag index maps the tag of every slot
\* that is not UNUSED to that slot, holds no other entry, and no two slots
\* that are not UNUSED carry the same tag.
C5_IndexBijection ==
    ~crashed =>
        /\ \A i \in DOMAIN prf_buffer :
              prf_buffer[i].status # "UNUSED" =>
                  prfh_lookup(prf_hash, prf_buffer, prf_buffer[i].buftag) = i
        /\ \A e \in prf_hash :
              /\ e.pos \in DOMAIN prf_buffer
              /\ prf_buffer[e.pos].status # "UNUSED"
              /\ prf_buffer[e.pos].buftag = e.h
        /\ \A i, j \in DOMAIN prf_buffer :
              (/\ prf_buffer[i].status # "UNUSED"
               /\ prf_buffer[j].status # "UNUSED"
               /\ prf_buffer[i].buftag = prf_buffer[j].buftag) => i = j

\* C6: between pipeline operations every slot with ring index in
\* [ring_receive, ring_unused) is REQUESTED and holds no response, every slot
\* with ring index in [ring_last, ring_receive) is RECEIVED with a response,
\* or TAG_REMAINS or UNUSED without one, and no REQUESTED slot lies below
\* ring_receive.
C6_StatusRanges ==
    ~crashed =>
        /\ \A k \in ring_receive..(ring_unused - 1) :
              /\ SlotAt(k).status = "REQUESTED"
              /\ SlotAt(k).response = NoResp
        /\ \A k \in ring_last..(ring_receive - 1) :
              \/ SlotAt(k).status = "RECEIVED" /\ SlotAt(k).response # NoResp
              \/ /\ SlotAt(k).status \in {"TAG_REMAINS", "UNUSED"}
                 /\ SlotAt(k).response = NoResp
        /\ \A i \in DOMAIN prf_buffer :
              prf_buffer[i].status = "REQUESTED" =>
                  prf_buffer[i].my_ring_index >= ring_receive

\* The outcome of prefetch_register_buffer(b, &force_latest, &force_lsn)
\* called in the current state.
RegisterOutcome(b, force_latest, force_lsn, fail) ==
    prefetch_register_buffer(Cur(fail, FALSE), b,
                             Forced(force_latest, force_lsn))

\* The rule of C7 for a slot stamped eff.
MayReuse(force_latest, force_lsn, eff) ==
    \/ force_latest /\ eff >= force_lsn
    \/ ~force_latest /\ eff = force_lsn

\* The call returned the slot it found and sent nothing.
Reused(old, r) ==
    /\ r.ring_index = old.my_ring_index
    /\ r.s.sent = << >>
    /\ r.s.issued = << >>
    /\ r.s.duplicates = 1
    /\ r.s.ring = prf_buffer

\* The call waited for the slot it found, retired it, and registered one
\* fresh slot stamped force_lsn, which it returned.
Replaced(b, force_lsn, old, r) ==
    /\ r.s.reg_waits = 1
    /\ r.s.duplicates = 0
    /\ r.ring_index # old.my_ring_index
    /\ \A i \in DOMAIN r.s.ring :
          r.s.ring[i].buftag = b => r.s.ring[i].my_ring_index = r.ring_index
    /\ Len(r.s.issued) = 1
    /\ r.s.issued[1].blk = b
    /\ r.s.issued[1].eff = force_lsn
    /\ r.s.issued[1].wire_lsn = force_lsn
    /\ Len(r.s.sent) >= 1
    /\ r.s.fail = {} =>
          /\ ~r.s.bad_set_unused
          /\ old.status = "REQUESTED" => r.s.nrecv >= 1
          /\ r.s.ring[r.ring_index % r.s.cap].buftag = b
          /\ r.s.ring[r.ring_index % r.s.cap].status = "REQUESTED"
          /\ r.s.ring[r.ring_index % r.s.cap].effective_request_lsn = force_lsn

C8_ExactLsnWhenNotLatest ==
    CanRegister =>
        \A b \in Blocks, lsn \in RequestLsns, fail \in FateSets :
            ReadOutcome(b, lsn, FALSE, fail).result = "page"
                => ReadOutcome(b, lsn, FALSE, fail).served
                       .effective_request_lsn = lsn

\* The outcome of neon_prefetch on block b of a permanent relation that is
\* not in the local file cache.
PrefetchOutcome(b, fail) ==
    neon_prefetch(Cur(fail, FALSE), "PERMANENT", b, FALSE)

\* The outcome of neon_read on such a block.
NeonReadOutcome(b, fail) ==
    neon_read(Cur(fail, FALSE), "PERMANENT", b, FALSE)

\* The LSN neon_get_request_lsn returns for block b in the current state.
OracleLsn(b) == neon_get_request_lsn(Cur({}, FALSE), b).lsn

\* The slot r holds for block b.
SlotIn(r, b) == r.ring[prfh_lookup(r.prf_hash, r.ring, b)]

\* neon_prefetch(b) issued one request without a forced LSN.
UnforcedRequest(b, r) ==
    /\ r.prefetch_lsn = Max(prefetch_lsn, OracleLsn(b))
    /\ Len(r.issued) = 1
    /\ ~r.issued[1].forced
    /\ r.issued[1].wire_lsn = OracleLsn(b)
    /\ r.issued[1].eff = r.prefetch_lsn
    /\ Len(r.sent) >= 1
    /\ \A i \in DOMAIN r.sent : r.sent[i].lsn = OracleLsn(b)
    /\ r.fail = {} =>
          /\ prfh_lookup(r.prf_hash, r.ring, b) # NoEntry
          /\ SlotIn(r, b).effective_request_lsn = r.prefetch_lsn

\* neon_read_at_lsn(b, lsn, ...) issued only requests forced to lsn.
ForcedRequests(lsn, r) ==
    /\ r.prefetch_lsn = prefetch_lsn
    /\ \A i \in DOMAIN r.issued :
          /\ r.issued[i].forced
          /\ r.issued[i].eff = lsn
          /\ r.issued[i].wire_lsn = lsn
    /\ \A i \in DOMAIN r.sent : r.sent[i].lsn = lsn

\* C9: prefetch_lsn never decreases; a request issued without a forced LSN
\* sets prefetch_lsn to max(previous prefetch_lsn, oracle LSN), sends the
\* oracle LSN on the wire and stamps the slot with the new prefetch_lsn; a
\* request with a forced LSN stamps exactly force_lsn and leaves prefetch_lsn
\* unchanged.
C9_PrefetchLsnMonotone ==
    /\ CanRegister =>
          /\ \A b \in Blocks, fail \in FateSets :
                /\ PrefetchOutcome(b, fail).prefetch_lsn >= prefetch_lsn
                /\ ~HasSlot(b) => UnforcedRequest(b, PrefetchOutcome(b, fail))
          /\ \A b \in Blocks, lsn \in RequestLsns, latest \in BOOLEAN,
                fail \in FateSets :
                ForcedRequests(lsn, ReadOutcome(b, lsn, latest, fail))
    /\ ~crashed =>
          /\ \A newsize \in CapSizes, fail \in FateSets :
                readahead_buffer_resize(Cur(fail, FALSE), newsize).prefetch_lsn
                    = prefetch_lsn
          /\ pageserver_disconnect(Cur({}, FALSE)).prefetch_lsn = prefetch_lsn

\* C9 witness: a prefetch whose oracle LSN is below prefetch_lsn sends the
\* oracle LSN and stamps its slot with the unchanged, larger prefetch_lsn.
C9_Witness ==
    /\ CanRegister
    /\ \E b \in Blocks :
          /\ ~HasSlot(b)
          /\ OracleLsn(b) < prefetch_lsn
          /\ UnforcedRequest(b, PrefetchOutcome(b, {}))
          /\ SlotIn(PrefetchOutcome(b, {}), b).effective_request_lsn
                 > PrefetchOutcome(b, {}).sent[1].lsn

\* Every request the call issued is stamped at or above lsn.
IssuedAtOrAbove(r, lsn) ==
    \A i \in DOMAIN r.issued : r.issued[i].eff >= lsn

\* C10 as stated: every request issued through neon_prefetch or neon_read
\* stamps its slot with an effective_request_lsn >= the LSN that
\* GetLastWrittenLSN reports for the block at that time.
C10_EffAtLeastLastWritten ==
    CanRegister =>
        \A b \in Blocks, fail \in FateSets :
            /\ IssuedAtOrAbove(PrefetchOutcome(b, fail), lwlsn[b])
            /\ IssuedAtOrAbove(NeonReadOutcome(b, fail), lwlsn[b])

\* C10, amended: every request issued through neon_prefetch or neon_read
\* stamps its slot with an effective_request_lsn >= the LSN that
\* neon_get_request_lsn returns for the block at that time.
C10_EffAtLeastRequestLsn ==
    CanRegister =>
        \A b \in Blocks, fail \in FateSets :
            /\ IssuedAtOrAbove(PrefetchOutcome(b, fail), OracleLsn(b))
            /\ IssuedAtOrAbove(NeonReadOutcome(b, fail), OracleLsn(b))
            /\ (fail = {} /\ ~HasSlot(b)) =>
                  SlotIn(PrefetchOutcome(b, {}), b).effective_request_lsn
                      >= OracleLsn(b)

\* C10 witness: a request is in flight for a block whose last-written LSN
\* lies just past a WAL page header; its slot is stamped with the LSN the
\* oracle returned, below the last-written LSN.
C10_Witness ==
    /\ ~crashed
    /\ \E i \in DOMAIN prf_buffer, j \in DOMAIN wire :
          /\ prf_buffer[i].status = "REQUESTED"
          /\ prf_buffer[i].buftag \in Blocks
          /\ wire[j].blk = prf_buffer[i].buftag
          /\ wire[j].lsn = OracleLsn(prf_buffer[i].buftag)
          /\ prf_buffer[i].effective_request_lsn
                 = OracleLsn(prf_buffer[i].buftag)
          /\ prf_buffer[i].effective_request_lsn
                 < lwlsn[prf_buffer[i].buftag]

----------------------------------------------------------------------------
(* Steps inside the entry points *)

\* The outcomes of the entry points a step of the program can call in the
\* current state, over all their inputs.
RegisteringOutcomes ==
    { PrefetchOutcome(b, fail) : b \in Blocks, fail \in FateSets }
    \cup { neon_read(Cur(x[2], x[3]), "PERMANENT", x[1], FALSE) :
             x \in Blocks \X FateSets \X BOOLEAN }
    \cup { ReadOutcome(x[1], x[2], x[3], x[4]) :
             x \in Blocks \X RequestLsns \X BOOLEAN \X FateSets }

ResizeOutcomes ==
    { readahead_buffer_resize(Cur(fail, FALSE), newsize) :
        newsize \in CapSizes, fail \in FateSets }

StepOutcomes ==
    (IF CanRegister THEN RegisteringOutcomes ELSE {})
    \cup (IF ~crashed /\ nresized < MaxResizes THEN ResizeOutcomes ELSE {})
    \cup (IF ~crashed THEN { pageserver_disconnect(Cur({}, FALSE)) } ELSE {})

\* What C11 compares of a slot.
LiveTuple(slot) ==
    [buftag |-> slot.buftag, status |-> slot.status,
     response |-> slot.response,
     effective_request_lsn |-> slot.effective_request_lsn]

LivePositions(snap) ==
    { p \in DOMAIN snap.ring : snap.ring[p].status # "UNUSED" }

\* The slots that are not UNUSED, in the order of the ring indexes they
\* hold (my_ring_index).
RECURSIVE LiveFrom(_, _)
LiveFrom(snap, k) ==
    IF k >= snap.ring_unused
    THEN << >>
    ELSE (IF /\ snap.ring[k % snap.cap].status # "UNUSED"
             /\ snap.ring[k % snap.cap].my_ring_index = k
          THEN << LiveTuple(snap.ring[k % snap.cap]) >>
          ELSE << >>) \o LiveFrom(snap, k + 1)

LiveSeq(snap) == LiveFrom(snap, snap.ring_last)

SameLiveMultiset(a, b) ==
    \A t \in { LiveTuple(a.ring[p]) : p \in LivePositions(a) }
             \cup { LiveTuple(b.ring[p]) : p \in LivePositions(b) } :
        Cardinality({ p \in LivePositions(a) : LiveTuple(a.ring[p]) = t })
            = Cardinality({ p \in LivePositions(b) : LiveTuple(b.ring[p]) = t })

IndexPointsAtLive(snap) ==
    \A p \in LivePositions(snap) :
        prfh_lookup(snap.prf_hash, snap.ring, snap.ring[p].buftag) = p

\* What C11 says of one call of compact_prefetch_buffers.
CompactionFrame(c) ==
    /\ SameLiveMultiset(c.before, c.after)
    /\ LiveSeq(c.before) = LiveSeq(c.after)
    /\ Len(LiveSeq(c.after)) = Cardinality(LivePositions(c.after))
    /\ IndexPointsAtLive(c.after)
    /\ c.after.n_requests_inflight = c.before.n_requests_inflight
    /\ c.after.n_responses_buffered = c.before.n_responses_buffered
    /\ c.after.ring_receive = c.before.ring_receive
    /\ c.after.ring_flush = c.before.ring_flush
    /\ c.after.ring_unused = c.before.ring_unused
    /\ c.after.n_unused = c.before.n_unused
    /\ c.after.cap = c.before.cap

\* C11: every call of compact_prefetch_buffers leaves the multiset of
\* (tag, status, response, effective_request_lsn) over the slots that are not
\* UNUSED unchanged and keeps their ring order; the tag index points at each
\* slot's new position; n_requests_inflight, n_responses_buffered,
\* ring_receive, ring_flush and ring_unused are unchanged.
C11_CompactionPreservesContent ==
    \A r \in StepOutcomes :
        \A i \in DOMAIN r.compactions : CompactionFrame(r.compactions[i])

\* C11 witness: a read retires the newer of two buffered responses, and the
\* compaction that follows moves the older one up and advances ring_last.
C11_Witness ==
    /\ CanRegister
    /\ \E b \in Blocks :
          \E i \in DOMAIN NeonReadOutcome(b, {}).compactions :
              /\ NeonReadOutcome(b, {}).compactions[i].moved
              /\ NeonReadOutcome(b, {}).compactions[i].after.ring_last
                     > NeonReadOutcome(b, {}).compactions[i].before.ring_last
              /\ LiveSeq(NeonReadOutcome(b, {}).compactions[i].after) # << >>
              /\ CompactionFrame(NeonReadOutcome(b, {}).compactions[i])

\* The RECEIVED slots of a snapshot, as (tag, effective_request_lsn, response).
ReceivedPositions(snap) ==
    { p \in DOMAIN snap.ring : snap.ring[p].status = "RECEIVED" }

ReceivedTuple(slot) ==
    [buftag |-> slot.buftag, response |-> slot.response,
     effective_request_lsn |-> slot.effective_request_lsn]

SameReceived(a, b) ==
    \A t \in { ReceivedTuple(a.ring[p]) : p \in ReceivedPositions(a) }
             \cup { ReceivedTuple(b.ring[p]) : p \in ReceivedPositions(b) } :
        Cardinality({ p \in ReceivedPositions(a) :
                        ReceivedTuple(a.ring[p]) = t })
            = Cardinality({ p \in ReceivedPositions(b) :
                              ReceivedTuple(b.ring[p]) = t })

\* What C12 says of one call of prefetch_on_ps_disconnect.
DisconnectEffect(d) ==
    /\ d.after.ring_receive = d.after.ring_unused
    /\ d.after.ring_flush = d.after.ring_unused
    /\ d.after.n_requests_inflight = 0
    /\ \A p \in DOMAIN d.after.ring : d.after.ring[p].status # "REQUESTED"
    /\ SameReceived(d.before, d.after)
    /\ d.after.n_responses_buffered = d.before.n_responses_buffered

\* C12: every call of prefetch_on_ps_disconnect ends with ring_receive =
\* ring_flush = ring_unused, n_requests_inflight = 0 and no slot REQUESTED,
\* and leaves the tag, effective_request_lsn and response of every RECEIVED
\* slot, and n_responses_buffered, unchanged.
C12_DisconnectDrainsInflight ==
    \A r \in StepOutcomes :
        \A i \in DOMAIN r.disconnects : DisconnectEffect(r.disconnects[i])

\* C12 witness: the connection drops while one response is buffered and an
\* unflushed request is in flight.
C12_Witness ==
    /\ ~crashed
    /\ n_responses_buffered > 0
    /\ n_requests_inflight > 0
    /\ ring_flush < ring_unused
    /\ Len(pageserver_disconnect(Cur({}, FALSE)).disconnects) = 1
    /\ DisconnectEffect(pageserver_disconnect(Cur({}, FALSE)).disconnects[1])
    /\ ReceivedPositions(Snapshot(pageserver_disconnect(Cur({}, FALSE)))) # {}

\* The positions of a snapshot that hold a slot of the given status.
PositionsWith(snap, status) ==
    { p \in DOMAIN snap.ring : snap.ring[p].status = status }

RingIsEmpty ==
    /\ ~crashed
    /\ ring_last = ring_unused
    /\ \A p \in DOMAIN prf_buffer : prf_buffer[p].status = "UNUSED"

\* neon_prefetch of blocks from..to in turn, no transport call failing.
RECURSIVE PrefetchBlocks(_, _, _)
PrefetchBlocks(s, from, to) ==
    IF from > to
    THEN s
    ELSE PrefetchBlocks(neon_prefetch(s, "PERMANENT", from, FALSE),
                        from + 1, to)

\* The blocks that hold a REQUESTED or RECEIVED slot in s.
LiveBlocks(s) ==
    { b \in Blocks :
        /\ prfh_lookup(s.prf_hash, s.ring, b) # NoEntry
        /\ s.ring[prfh_lookup(s.prf_hash, s.ring, b)].status
               \in {"REQUESTED", "RECEIVED"} }

\* After the prefetches of blocks 1..n, the blocks from..n are live, and
\* nretired slots were retired after nretired responses were received.
LiveAfter(n, from, nretired) ==
    /\ LiveBlocks(PrefetchBlocks(Cur({}, FALSE), 1, n)) = from..n
    /\ PrefetchBlocks(Cur({}, FALSE), 1, n).nretired = nretired
    /\ PrefetchBlocks(Cur({}, FALSE), 1, n).nrecv = nretired
    /\ Len(PrefetchBlocks(Cur({}, FALSE), 1, n).sent) = n
    /\ ~PrefetchBlocks(Cur({}, FALSE), 1, n).overwrite

LiveSlotsOf(b) ==
    { p \in DOMAIN prf_buffer :
        /\ prf_buffer[p].buftag = b
        /\ prf_buffer[p].status \in {"REQUESTED", "RECEIVED"} }

\* The requests for block b that are sent and not yet answered.
OutstandingFor(b) == { j \in DOMAIN wire : wire[j].blk = b }

\* prefetch_register_buffer(b, NULL, NULL) returned the slot at position p
\* and did nothing else.
DuplicateHit(p, r) ==
    /\ r.ring_index = prf_buffer[p].my_ring_index
    /\ r.s.sent = << >>
    /\ r.s.issued = << >>
    /\ r.s.ncall = 0
    /\ r.s.duplicates = 1
    /\ Snapshot(r.s) = Snapshot(Cur({}, FALSE))
    /\ r.s.wire = wire
    /\ r.s.prefetch_lsn = prefetch_lsn

\* C15: prefetch_register_buffer(tag, NULL, NULL) called for a tag that has
\* a REQUESTED or RECEIVED slot sends no request, changes none of ring_last,
\* ring_receive, ring_flush, ring_unused or the counters, and returns that
\* slot's ring index; there is at most one live slot and one outstanding
\* request per block.
C15_DuplicatePrefetchIsNoOp ==
    ~crashed =>
        \A b \in Blocks :
            /\ Cardinality(LiveSlotsOf(b)) <= 1
            /\ Cardinality(OutstandingFor(b)) <= 1
            /\ \A p \in LiveSlotsOf(b), fail \in FateSets :
                  DuplicateHit(p, prefetch_register_buffer(Cur(fail, FALSE),
                                                           b, NoForce))

\* C15 witness: a request for block b is in flight and unanswered, and a
\* second prefetch of b returns its slot.
C15_Witness ==
    /\ CanRegister
    /\ \E b \in Blocks :
          /\ OutstandingFor(b) # {}
          /\ \E p \in LiveSlotsOf(b) :
                /\ prf_buffer[p].status = "REQUESTED"
                /\ DuplicateHit(p, prefetch_register_buffer(Cur({}, FALSE),
                                                            b, NoForce))
                /\ PrefetchOutcome(b, {}).duplicates = 1

\* neon_prefetch(b) followed by neon_read(b), for a block of a permanent
\* relation that is not in the local file cache; fail holds the ordinals of
\* the transport calls of the two that fail.
PrefetchThenRead(b, fail) ==
    neon_read(neon_prefetch(Cur(fail, FALSE), "PERMANENT", b, FALSE),
              "PERMANENT", b, FALSE)

\* One request was sent and one response consumed, its page was copied out
\* and written to the local file cache, and no slot is left for block b.
OneRoundTrip(b, r) ==
    /\ Len(r.sent) = 1
    /\ r.sent[1].blk = b
    /\ r.nrecv = 1
    /\ r.result = "page"
    /\ r.buffer = PageServerAnswer(r.sent[1])
    /\ r.lfc_writes = 1
    /\ prfh_lookup(r.prf_hash, r.ring, b) = NoEntry
    /\ \A p \in DOMAIN r.ring : r.ring[p].buftag # b
    /\ r.served.buftag = b

\* The position the served slot had is UNUSED.
SlotLeftUnused(r) == r.ring[r.served.my_ring_index % r.cap].status = "UNUSED"

C17_NeverRetiresRequested ==
    \A r \in StepOutcomes : ~r.starved => ~r.bad_set_unused

\* C17 witness: a read finds a slot stamped below its LSN and still
\* REQUESTED; the flush of the wait that precedes the retirement fails, and
\* the retirement that follows meets a slot that is no longer REQUESTED.
C17_Witness ==
    /\ CanRegister
    /\ \E b \in Blocks, lsn \in RequestLsns :
          /\ StaleSlotFor(b, lsn)
          /\ SlotOf(b).status = "REQUESTED"
          /\ ring_flush < ring_unused
          /\ Len(StaleRead(b, lsn, {1}, FALSE).wait_returns) >= 1
          /\ ~StaleRead(b, lsn, {1}, FALSE).wait_returns[1].ok
          /\ StaleRead(b, lsn, {1}, FALSE).expired = 1
          /\ ~StaleRead(b, lsn, {1}, FALSE).bad_set_unused
          /\ ~StaleRead(b, lsn, {1}, FALSE).starved

\* What C18 says of one failing flush or receive inside prefetch_wait_for.
FailedStepChangesNothing(w) ==
    /\ w.step = "flush" => w.after.ring_flush = w.before.ring_flush
    /\ w.after.ring_receive = w.before.ring_receive
    /\ w.after.n_requests_inflight = w.before.n_requests_inflight
    /\ w.after.n_responses_buffered = w.before.n_responses_buffered
    /\ w.after.ring[w.before.ring_receive % w.before.cap].status
           = w.before.ring[w.before.ring_receive % w.before.cap].status
    /\ w.after.ring[w.before.ring_receive % w.before.cap].response
           = w.before.ring[w.before.ring_receive % w.before.cap].response

\* Every call of prefetch_wait_for in which a step failed returned false.
FailedWaitsReturnFalse(r) ==
    \A i \in DOMAIN r.wait_returns :
        r.wait_returns[i].nfails > 0 =>
            ~r.wait_returns[i].ok /\ r.wait_returns[i].nfails = 1

\* C18 as stated: when a transport flush or receive fails inside
\* prefetch_wait_for, the call returns false and the failing step changes
\* nothing: ring_flush (for a failed flush), ring_receive,
\* n_requests_inflight, n_responses_buffered and the status and response of
\* the slot at ring_receive are as they were before the failing step.
C18_FailedStepChangesNothing ==
    \A r \in StepOutcomes :
        /\ FailedWaitsReturnFalse(r)
        /\ \A i \in DOMAIN r.wait_fails :
              FailedStepChangesNothing(r.wait_fails[i])

\* The failing step changed what the disconnect hook it triggered changed,
\* and nothing else; the hook left no request in flight and
\* n_responses_buffered as it was.
FailedStepChangesOnlyByHook(w) ==
    /\ Len(w.hooks) = 1
    /\ w.hooks[1].before = w.before
    /\ w.hooks[1].after = w.after
    /\ w.after.n_responses_buffered = w.before.n_responses_buffered
    /\ w.after.n_requests_inflight = 0
    /\ w.after.ring_receive = w.after.ring_unused
    /\ w.after.ring_flush = w.after.ring_unused

\* C18, amended: when a transport flush or receive fails inside
\* prefetch_wait_for, the call returns false, and the failing step changes
\* only what the disconnect handling it triggers changes: afterwards
\* n_requests_inflight = 0 and ring_receive = ring_flush = ring_unused, and
\* n_responses_buffered is as it was before the failing step.
C18_FailedStepChangesOnlyByHook ==
    \A r \in StepOutcomes :
        /\ FailedWaitsReturnFalse(r)
        /\ \A i \in DOMAIN r.wait_fails :
              FailedStepChangesOnlyByHook(r.wait_fails[i])

\* C18 witness: a read waits for a request that is in flight behind a
\* buffered response; the receive fails, the wait returns false, and the
\* request is no longer in flight.
C18_Witness ==
    /\ CanRegister
    /\ n_responses_buffered > 0
    /\ \E b \in Blocks :
          /\ HasSlot(b)
          /\ SlotOf(b).status = "REQUESTED"
          /\ Len(NeonReadOutcome(b, {2}).wait_fails) = 1
          /\ NeonReadOutcome(b, {2}).wait_fails[1].step = "receive"
          /\ NeonReadOutcome(b, {2}).wait_fails[1].before.n_requests_inflight > 0
          /\ ~NeonReadOutcome(b, {2}).wait_returns[1].ok
          /\ FailedStepChangesOnlyByHook(NeonReadOutcome(b, {2}).wait_fails[1])

\* The last n elements of a sequence.
Suffix(seq, n) == SubSeq(seq, Len(seq) - n + 1, Len(seq))

Min(a, b) == IF a <= b THEN a ELSE b

\* The slots of a snapshot with the given status.
RequestedIn(snap) == PositionsWith(snap, "REQUESTED")

\* The counters and the tag index of a snapshot agree with its slots, each
\* of which sits at the position of a ring index in [ring_last, ring_unused).
RingConsistent(snap) ==
    /\ snap.n_requests_inflight = Cardinality(PositionsWith(snap, "REQUESTED"))
    /\ snap.n_responses_buffered = Cardinality(PositionsWith(snap, "RECEIVED"))
    /\ snap.ring_unused - snap.ring_last <= snap.cap
    /\ Len(LiveSeq(snap)) = Cardinality(LivePositions(snap))
    /\ snap.ring_receive = snap.ring_unused - snap.n_requests_inflight
    /\ \A p \in LivePositions(snap) :
          snap.ring[p].status = "REQUESTED"
              <=> snap.ring[p].my_ring_index >= snap.ring_receive
    /\ IndexPointsAtLive(snap)
    /\ Cardinality(snap.prf_hash) = Cardinality(LivePositions(snap))

\* The same of a ring just built: the slots in use are the whole of
\* [ring_last, ring_unused).
ConsistentWithSlots(snap) ==
    /\ RingConsistent(snap)
    /\ snap.ring_unused - snap.ring_last = Cardinality(LivePositions(snap))

\* The new ring holds the min(newsize, L) newest of the slots of old that are
\* not UNUSED, in their order and with their fields; none that was REQUESTED
\* is missing; the new counters and index agree with the copied slots.
ResizeKeeps(old, new, newsize) ==
    /\ new.cap = newsize
    /\ LiveSeq(new)
           = Suffix(LiveSeq(old), Min(newsize, Len(LiveSeq(old))))
    /\ Cardinality(RequestedIn(new)) = Cardinality(RequestedIn(old))
    /\ ConsistentWithSlots(new)

ResizeOutcome(newsize) == readahead_buffer_resize(Cur({}, FALSE), newsize)

AdjustedLsn(lsn) ==
    lsn - (IF lsn % XLOG_BLCKSZ = SizeOfXLogShortPHD
           THEN SizeOfXLogShortPHD
           ELSE IF lsn % wal_segment_size = SizeOfXLogLongPHD
           THEN SizeOfXLogLongPHD
           ELSE 0)

\* The request LSN C20 describes for block b in the current state.
DescribedRequestLsn(b) ==
    IF RecoveryInProgress
    THEN [latest |-> FALSE, lsn |-> AdjustedLsn(lwlsn[b])]
    ELSE IF am_walsender
    THEN [latest |-> TRUE, lsn |-> 0]
    ELSE [latest |-> TRUE, lsn |-> AdjustedLsn(lwlsn[b])]

\* C20: neon_get_request_lsn returns (latest = false, adjust(LwLSN)) whenever
\* recovery is in progress; otherwise, in a WAL sender, (latest = true, 0);
\* otherwise (latest = true, adjust(LwLSN)), where adjust subtracts the short
\* page-header size when lsn mod XLOG_BLCKSZ equals it, else the long header
\* size when lsn mod wal_segment_size equals it, else nothing.  The request
\* neon_prefetch sends for a block carries that LSN.
C20_RequestLsnByProcessKind ==
    /\ \A b \in Blocks :
          neon_get_request_lsn(Cur({}, FALSE), b) = DescribedRequestLsn(b)
    /\ CanRegister =>
          \A b \in Blocks :
              \A i \in DOMAIN PrefetchOutcome(b, {}).issued :
                  /\ PrefetchOutcome(b, {}).issued[i].wire_lsn
                         = DescribedRequestLsn(b).lsn
                  /\ PrefetchOutcome(b, {}).issued[i].latest
                         = DescribedRequestLsn(b).latest

\* C20 witness: outside recovery and not in a WAL sender, block 1 was last
\* written just after the long header of a segment, and the request for it
\* on the connection carries the LSN of the start of the segment.
C20_Witness ==
    /\ ~RecoveryInProgress /\ ~am_walsender
    /\ lwlsn[1] = wal_segment_size + SizeOfXLogLongPHD
    /\ neon_get_request_lsn(Cur({}, FALSE), 1)
           = [latest |-> TRUE, lsn |-> wal_segment_size]
    /\ \E i \in DOMAIN wire :
          /\ wire[i].blk = 1
          /\ wire[i].lsn = wal_segment_size
          /\ wire[i].latest

----------------------------------------------------------------------------
(* Eviction and extension of pages *)

WriteOutcome(blk, page, shutdown, allowed, mdex) ==
    neon_write(Given({}, FALSE,
                     WalEnv(shutdown, allowed) @@ [mdexists |-> mdex]),
               blk, page)

ExtendOutcome(blk, page, shutdown, allowed, size) ==
    neon_extend(Given({}, FALSE,
                      WalEnv(shutdown, allowed) @@ [srv_size |-> size]),
                blk, page)

\* Event i is a call of neon_wallog_page with force = true, or on the FSM
\* or visibility-map fork.
ForcedLogAt(ev, i) ==
    /\ ev[i].op = "neon_wallog_page"
    /\ ev[i].force \/ forknum \in {"FSM", "VM"}

\* The call at event i copies the page, logs the copy, flushes the WAL up
\* to the end of that record and then publishes the record's LSN for the
\* block; it makes no other call in between and sends no request.
LoggedFlushedPublished(r, i) ==
    LET ev == r.events
    IN  /\ Len(ev) >= i + 4
        /\ ev[i + 1].op = "memcpy" /\ ev[i + 1].blk = ev[i].blk
        /\ ev[i + 2].op = "log_newpage" /\ ev[i + 2].blk = ev[i].blk
        /\ ev[i + 2].lsn > xlog_insert
        /\ ev[i + 3] = Event("XLogFlush", 0, ev[i + 2].lsn, FALSE)
        /\ ev[i + 4] = Event("SetLastWrittenLSNForBlock", ev[i].blk,
                             ev[i + 2].lsn, FALSE)
        /\ r.xlog_flush >= ev[i + 2].lsn
        /\ r.lwlsn[ev[i].blk] >= ev[i + 2].lsn
        /\ \A j \in i..Len(ev) : ev[j].op # "page_server_request"

ForcedCallsLog(r) ==
    \A i \in DOMAIN r.events :
        ForcedLogAt(r.events, i) => LoggedFlushedPublished(r, i)

\* C21: outside recovery, with WAL insertion allowed and no shutdown
\* pending, every call of neon_wallog_page that neon_write or neon_extend
\* makes for an FSM or visibility-map fork, or with force = true, logs a
\* full-page image of a copy of the page, flushes that record and only then
\* calls SetLastWrittenLSNForBlock with the record's LSN; neon_write sends
\* no request to the page server, and neon_extend sends none once the first
\* page is being logged.
C21_ForcedPageLoggedFlushedPublished ==
    ~RecoveryInProgress =>
        \A blk \in RelSizes, page \in Pages, mdex \in BOOLEAN,
           size \in RelSizes :
            /\ ForcedCallsLog(WriteOutcome(blk, page, FALSE, TRUE, mdex))
            /\ WriteOutcome(blk, page, FALSE, TRUE, mdex).sent = << >>
            /\ ForcedCallsLog(ExtendOutcome(blk, page, FALSE, TRUE, size))

\* A page of the FSM or visibility-map fork has been logged, flushed and
\* published outside recovery.
C21_Witness ==
    /\ ~RecoveryInProgress
    /\ forknum \in {"FSM", "VM"}
    /\ xlog_insert > LsnAt(MaxLsnIdx)
    /\ xlog_flush = xlog_insert
    /\ \E b \in RelSizes : lwlsn[b] = xlog_insert

\* The two kinds of page that may be evicted with a zero LSN: pd_upper is
\* zero, or the page equals a heap page as PageInit leaves it.
ExemptPage(page) ==
    page.pd_upper = 0 \/ page = PageOf(0, BLCKSZ, 0, 0)

\* The write panics exactly when the page is not exempt, and an exempt
\* page leaves the WAL as it was.
PanicsIffNotExempt(page, w) ==
    /\ w.result = "PANIC" <=> ~ExemptPage(page)
    /\ ExemptPage(page) =>
          /\ w.xlog_insert = xlog_insert
          /\ \A i \in DOMAIN w.events : w.events[i].op # "log_newpage"

ZeroLsnPages == { page \in Pages : page.lsn = 0 }

\* C22 as stated: a non-forced write of a page with LSN 0 of a permanent
\* relation, on a fork other than FSM/VM and with WAL insertion allowed,
\* panics if and only if the page is neither new nor an empty heap page,
\* and in the exempt cases writes no WAL record.
C22_ZeroLsnPanicsIffNotExempt ==
    (smgr_relpersistence = "PERMANENT" /\ forknum = "MAIN") =>
        \A blk \in RelSizes, page \in ZeroLsnPages, shutdown \in BOOLEAN :
            PanicsIffNotExempt(page,
                               WriteOutcome(blk, page, shutdown, TRUE, FALSE))

\* C22, amended: the same, for a write that finds no shutdown pending.
C22_ZeroLsnPanicsIffNotExemptUnlessShutdown ==
    (smgr_relpersistence = "PERMANENT" /\ forknum = "MAIN") =>
        \A blk \in RelSizes, page \in ZeroLsnPages :
            PanicsIffNotExempt(page,
                               WriteOutcome(blk, page, FALSE, TRUE, FALSE))

\* A write of the main fork of a permanent relation has panicked: nothing
\* was logged and no size was asked for.
C22_Witness ==
    /\ crashed
    /\ smgr_relpersistence = "PERMANENT" /\ forknum = "MAIN"
    /\ relsize = NotCached
    /\ xlog_insert = LsnAt(MaxLsnIdx)

----------------------------------------------------------------------------
(* WAL redo *)

FilterOutcome(end_recptr, db_valid, blk, in_buf, old, size, fail, srv_err) ==
    neon_redo_read_buffer_filter(
        Given(fail, srv_err,
              [in_buffers |-> in_buf, old_filter |-> old, srv_size |-> size,
               garbage |-> size]),
        end_recptr, db_valid, blk)

\* Once the filter has returned, the last-written LSN of the block is at
\* or past the end of the record.
PublishedOnReturn(end_recptr, blk, r) ==
    r.result = "returned" => r.lwlsn[blk] >= end_recptr

OldFilterAnswers == {"none", "false", "true"}

\* C23 as stated: after neon_redo_read_buffer_filter returns for a record
\* that ends at E and refers to block b, the last-written LSN of b is at
\* least E, whatever it returns: for every block, those of shared catalogs
\* and those a previously installed filter answered for included.
C23_LwLsnPastRecordForEveryBlock ==
    \A end_recptr \in RedoLsns, db_valid \in BOOLEAN, blk \in RelSizes,
       in_buf \in BOOLEAN, old \in OldFilterAnswers, size \in RelSizes :
        PublishedOnReturn(end_recptr, blk,
                          FilterOutcome(end_recptr, db_valid, blk, in_buf,
                                        old, size, {}, FALSE))

\* C23, amended: the same for every block with a valid database id for
\* which no previously installed filter has answered true.
C23_LwLsnPastRecordWhenFilterDecides ==
    \A end_recptr \in RedoLsns, blk \in RelSizes, in_buf \in BOOLEAN,
       old \in {"none", "false"}, size \in RelSizes, fail \in FateSets,
       srv_err \in BOOLEAN :
        PublishedOnReturn(end_recptr, blk,
                          FilterOutcome(end_recptr, TRUE, blk, in_buf, old,
                                        size, fail, srv_err))

\* The filter has returned for a record that ends at LsnAt(MaxLsnIdx + 1)
\* and has published that LSN for the block.
C23_Witness ==
    /\ RecoveryInProgress /\ ~crashed
    /\ relsize # NotCached
    /\ \E b \in 0..1 : lwlsn[b] = LsnAt(MaxLsnIdx + 1)

\* The positions of the events of one kind.
EventsOf(r, op) == { i \in DOMAIN r.events : r.events[i].op = op }

\* The filter publishes end_recptr for the block exactly once, after it has
\* acquired the partition lock and before it releases it.
PublishedUnderLock(end_recptr, blk, r) ==
    \E a \in EventsOf(r, "LWLockAcquire"),
       p \in EventsOf(r, "SetLastWrittenLSNForBlock"),
       l \in EventsOf(r, "LWLockRelease") :
        /\ a < p /\ p < l
        /\ r.events[p] = Event("SetLastWrittenLSNForBlock", blk, end_recptr,
                               FALSE)
        /\ EventsOf(r, "LWLockAcquire") = {a}
        /\ EventsOf(r, "SetLastWrittenLSNForBlock") = {p}
        /\ EventsOf(r, "LWLockRelease") = {l}

FilterDecides(end_recptr, blk, in_buf, r) ==
    /\ EventsOf(r, "lfc_evict") # {} <=> ~in_buf
    /\ PublishedUnderLock(end_recptr, blk, r)
    /\ r.result = "returned" =>
          /\ r.returned = "true" <=> ~in_buf
          /\ r.locks = 0

\* C24 as stated: for a block with a valid database id the filter returns
\* true if and only if the block is absent from shared buffers, calls
\* lfc_evict if and only if it is absent, publishes the end-of-record LSN
\* while it holds the partition lock, and holds no lock when it returns.
C24_FilterDecidesByBufferTable ==
    \A end_recptr \in RedoLsns, blk \in RelSizes, in_buf \in BOOLEAN,
       old \in OldFilterAnswers, size \in RelSizes :
        FilterDecides(end_recptr, blk, in_buf,
                      FilterOutcome(end_recptr, TRUE, blk, in_buf, old, size,
                                    {}, FALSE))

\* C24, amended: the same for a block for which no previously installed
\* filter has answered true.
C24_FilterDecidesByBufferTableUnlessClaimed ==
    \A end_recptr \in RedoLsns, blk \in RelSizes, in_buf \in BOOLEAN,
       old \in {"none", "false"}, size \in RelSizes, fail \in FateSets,
       srv_err \in BOOLEAN :
        FilterDecides(end_recptr, blk, in_buf,
                      FilterOutcome(end_recptr, TRUE, blk, in_buf, old, size,
                                    fail, srv_err))

\* The filter has run for a record that ends at LsnAt(MaxLsnIdx): the LSN
\* is published for the block and for the relation.
C24_Witness ==
    /\ RecoveryInProgress /\ ~crashed
    /\ lwlsn[REL_METADATA_PSEUDO_BLOCKNO] >= LsnAt(MaxLsnIdx)
    /\ \E b \in 0..1 : lwlsn[b] = LsnAt(MaxLsnIdx)

----------------------------------------------------------------------------
(* Unlogged builds *)

StartOutcome(size, fail, srv_err) ==
    neon_start_unlogged_build(
        Given(fail, srv_err, [srv_size |-> size, md_nblocks |-> size]))

BuildUnchanged(r) ==
    /\ r.unlogged_build_phase = unlogged_build_phase
    /\ r.unlogged_build_rel = unlogged_build_rel

BuildIs(r, phase, rel) ==
    r.unlogged_build_phase = phase /\ r.unlogged_build_rel = rel

\* neon_start_unlogged_build: from NOT_IN_PROGRESS to PHASE_1 on an empty
\* permanent relation and to NOT_PERMANENT on a temp or unlogged one; an
\* error, and nothing changed, in every other case.  A start that is left
\* waiting for the answer to its size request has not returned, and has
\* changed nothing.
StartTransition(size, r) ==
    IF unlogged_build_phase # "NOT_IN_PROGRESS"
    THEN r.result = "elog_error" /\ BuildUnchanged(r)
    ELSE IF smgr_relpersistence \in {"TEMP", "UNLOGGED"}
    THEN r.result = "done" /\ BuildIs(r, "NOT_PERMANENT", "reln")
    ELSE IF smgr_relpersistence = "PERMANENT"
    THEN /\ (KnownSize(size) # 0 /\ ~r.starved) => r.result = "elog_error"
         /\ r.starved => r.result = "none"
         /\ r.result = "done" => BuildIs(r, "PHASE_1", "reln")
         /\ r.result # "done" => BuildUnchanged(r)
    ELSE r.result = "elog_error" /\ BuildUnchanged(r)

FinishTransition(r) ==
    IF unlogged_build_phase = "PHASE_1"
    THEN BuildIs(r, "PHASE_2", "reln")
    ELSE BuildUnchanged(r)

EndTransition(r) == BuildIs(r, "NOT_IN_PROGRESS", "NULL")

\* The transaction events as the claim has them: an abort resets the
\* phase, no other event changes it.
EventTransition(event, r) ==
    IF event \in {"ABORT", "PARALLEL_ABORT"}
    THEN BuildIs(r, "NOT_IN_PROGRESS", "NULL")
    ELSE BuildUnchanged(r)

\* The transaction events as the code has them: a commit-type event that
\* finds a build in progress resets the phase as well.
EventTransitionWithReset(event, r) ==
    IF event \in {"ABORT", "PARALLEL_ABORT"}
           \/ unlogged_build_phase # "NOT_IN_PROGRESS"
    THEN BuildIs(r, "NOT_IN_PROGRESS", "NULL")
    ELSE BuildUnchanged(r)

\* At most one build is live: the build relation is set exactly while a
\* build is in progress.
OneBuildLive ==
    /\ unlogged_build_phase \in UnloggedBuildPhases
    /\ unlogged_build_rel \in {"NULL", "reln"}
    /\ unlogged_build_rel = "NULL" <=> unlogged_build_phase = "NOT_IN_PROGRESS"

BuildTransitions ==
    /\ \A size \in 0..1, fail \in FateSets, srv_err \in BOOLEAN :
          StartTransition(size, StartOutcome(size, fail, srv_err))
    /\ (unlogged_build_rel = "reln"
          /\ unlogged_build_phase \in {"PHASE_1", "NOT_PERMANENT"}) =>
          FinishTransition(neon_finish_unlogged_build_phase_1(Cur({}, FALSE)))
    /\ (unlogged_build_rel = "reln"
          /\ unlogged_build_phase \in {"PHASE_2", "NOT_PERMANENT"}) =>
          EndTransition(neon_end_unlogged_build(Cur({}, FALSE)))
    /\ OneBuildLive

\* C25 as stated: the phase changes only from NOT_IN_PROGRESS to PHASE_1
\* (start on an empty permanent relation) or NOT_PERMANENT (start on a temp
\* or unlogged one), from PHASE_1 to PHASE_2 (finish phase 1), from PHASE_2
\* or NOT_PERMANENT to NOT_IN_PROGRESS (end) and from any phase to
\* NOT_IN_PROGRESS on abort; a start that finds a build in progress or a
\* non-empty permanent relation raises an error and changes neither the
\* phase nor the build relation; at most one build is live.
C25_PhaseChangesOnlyAsListed ==
    /\ BuildTransitions
    /\ \A event \in XactEvents :
          EventTransition(event, AtEOXact_neon(Cur({}, FALSE), event))

\* C25, amended: besides the listed transitions, a commit-type event that
\* finds a build in progress takes the phase to NOT_IN_PROGRESS.
C25_PhaseChangesAsListedOrOnCommit ==
    /\ BuildTransitions
    /\ \A event \in XactEvents :
          EventTransitionWithReset(event,
                                   AtEOXact_neon(Cur({}, FALSE), event))

\* The build of a permanent relation has reached phase 2.
C25_Witness ==
    /\ unlogged_build_phase = "PHASE_2"
    /\ unlogged_build_rel = "reln"
    /\ smgr_relpersistence = "UNLOGGED"

CommitTypeEvents == XactEvents \ {"ABORT", "PARALLEL_ABORT"}

\* What AtEOXact_neon leaves apart from its result.
SameAsBefore(r) == [r EXCEPT !.result = "none"] = Cur({}, FALSE)

EventOutcome(event, r) ==
    /\ (event \in CommitTypeEvents
          /\ unlogged_build_phase # "NOT_IN_PROGRESS") =>
          r.result = "internal_error"
    /\ event \notin CommitTypeEvents =>
          r.result = "done" /\ BuildIs(r, "NOT_IN_PROGRESS", "NULL")
    /\ unlogged_build_phase = "NOT_IN_PROGRESS" =>
          r.result = "done" /\ SameAsBefore(r)

\* C26: a commit, pre-commit, prepare or pre-prepare event (parallel
\* variants included) that finds the unlogged-build phase different from
\* NOT_IN_PROGRESS raises an internal error; an abort event raises nothing
\* in any phase and resets the phase to NOT_IN_PROGRESS; with the phase
\* NOT_IN_PROGRESS every event raises nothing and changes nothing.
C26_TransactionEvents ==
    \A event \in XactEvents :
        EventOutcome(event, AtEOXact_neon(Cur({}, FALSE), event))

\* A transaction event has ended the build of a permanent relation in
\* phase 1 or 2: the relation still looks unlogged.
C26_Witness ==
    /\ unlogged_build_phase = "NOT_IN_PROGRESS"
    /\ unlogged_build_rel = "NULL"
    /\ smgr_relpersistence = "UNLOGGED"
    /\ relsize # NotCached

----------------------------------------------------------------------------
(* Dispatch on the persistence of the relation *)

\* What the page server and md.c answer during a call.
Answers(mdex, size) ==
    [mdexists |-> mdex, srv_size |-> size, md_nblocks |-> size]

\* The prefetch pipeline and the connection of a record.
Pipeline(r) == <<Snapshot(r), r.prefetch_lsn, r.wire>>

\* The call has raised an error, has sent nothing and has left the
\* pipeline as it was.
Rejected(r) ==
    /\ r.result = "elog_error"
    /\ r.sent = << >>
    /\ Pipeline(r) = Pipeline(Cur({}, FALSE))

Accepted(r) == r.result # "elog_error"

\* create, extend, read, nblocks, truncate and immedsync are rejected.
SixRejected ==
    /\ \A isRedo \in BOOLEAN : Rejected(neon_create(Cur({}, FALSE), isRedo))
    /\ \A blk \in 0..1, page \in Pages, mdex \in BOOLEAN, size \in 0..1 :
          Rejected(neon_extend(Given({}, FALSE, Answers(mdex, size)),
                               blk, page))
    /\ \A b \in Blocks, lfc \in BOOLEAN :
          Rejected(neon_read(Cur({}, FALSE), smgr_relpersistence, b, lfc))
    /\ \A size \in 0..1 :
          Rejected(neon_nblocks(Given({}, FALSE, Answers(FALSE, size))))
    /\ \A nblocks \in 0..1 : Rejected(neon_truncate(Cur({}, FALSE), nblocks))
    /\ Rejected(neon_immedsync(Cur({}, FALSE)))

\* write, unlink, exists and close are accepted.
FourAccepted ==
    /\ \A blk \in 0..1, page \in Pages, mdex \in BOOLEAN :
          Accepted(neon_write(Given({}, FALSE, Answers(mdex, 0)), blk, page))
    /\ Accepted(neon_unlink(Cur({}, FALSE), FALSE))
    /\ \A mdex \in BOOLEAN, size \in -1..1 :
          Accepted(neon_exists(Given({}, FALSE, Answers(mdex, size))))
    /\ Accepted(neon_close(Cur({}, FALSE)))

PrefetchOutcomes ==
    { neon_prefetch(Cur({}, FALSE), smgr_relpersistence, b, lfc) :
        b \in Blocks, lfc \in BOOLEAN }

\* C27 as stated: for a relation of unknown persistence, write, unlink,
\* exists and close are the only operations of the adaptor surface that are
\* accepted; create, extend, read, prefetch, nblocks, truncate and immedsync
\* are each rejected with an error, without a request to the page server
\* and without a change of the pipeline.
C27_UnknownPersistenceOnlyFour ==
    (smgr_relpersistence = "0" /\ CanRegister) =>
        /\ SixRejected
        /\ FourAccepted
        /\ \A r \in PrefetchOutcomes : Rejected(r)
        /\ \A blk \in 0..1 : Rejected(neon_writeback(Cur({}, FALSE), blk))
        /\ Rejected(neon_open(Cur({}, FALSE)))

\* C27, amended: write, writeback, prefetch, unlink, exists, open and close
\* are accepted; create, extend, read, nblocks, truncate and immedsync are
\* each rejected with an error, without a request to the page server and
\* without a change of the pipeline.
C27_UnknownPersistenceSixRejected ==
    (smgr_relpersistence = "0" /\ CanRegister) =>
        /\ SixRejected
        /\ FourAccepted
        /\ \A r \in PrefetchOutcomes : Accepted(r)
        /\ \A blk \in 0..1 : Accepted(neon_writeback(Cur({}, FALSE), blk))
        /\ Accepted(neon_open(Cur({}, FALSE)))

\* A prefetch for a relation of unknown persistence has been registered.
C27_Witness ==
    /\ smgr_relpersistence = "0"
    /\ ring_unused > 0
    /\ ~crashed

MdOps ==
    {"mdexists", "mdcreate", "mdextend", "mdread", "mdwrite", "mdprefetch",
     "mdwriteback", "mdnblocks", "mdtruncate", "mdimmedsync"}

\* The call has gone to md.c only: no request, and the pipeline, the
\* relation-size cache, the local file cache, the last-written LSNs and the
\* WAL are as before.
LocalOnly(r) ==
    /\ r.result = "md"
    /\ \A i \in DOMAIN r.events : r.events[i].op \in MdOps
    /\ r.sent = << >>
    /\ r.lfc_writes = 0
    /\ Pipeline(r) = Pipeline(Cur({}, FALSE))
    /\ r.relsize = relsize
    /\ r.lwlsn = lwlsn
    /\ r.xlog_insert = xlog_insert /\ r.xlog_flush = xlog_flush

\* C28: for a relation whose persistence is TEMP or UNLOGGED, each of
\* exists, create, extend, read, write, prefetch, writeback, nblocks,
\* truncate and immedsync only calls the local disk implementation: it
\* sends no request to the page server and leaves the prefetch ring and
\* index, prefetch_lsn, the relation-size cache, the local file cache and
\* all last-written LSNs unchanged.
C28_LocalRelationsStayLocal ==
    smgr_relpersistence \in {"TEMP", "UNLOGGED"} =>
        /\ \A mdex \in BOOLEAN, size \in -1..1 :
              LocalOnly(neon_exists(Given({}, FALSE, Answers(mdex, size))))
        /\ \A isRedo \in BOOLEAN : LocalOnly(neon_create(Cur({}, FALSE), isRedo))
        /\ \A blk \in 0..1, page \in Pages, mdex \in BOOLEAN, size \in 0..1,
              full \in BOOLEAN :
              /\ LocalOnly(neon_extend(
                     Given({}, FALSE,
                           Answers(mdex, size) @@ [cluster_full |-> full]),
                     blk, page))
              /\ LocalOnly(neon_write(Given({}, FALSE, Answers(mdex, size)),
                                      blk, page))
        /\ \A b \in Blocks, lfc \in BOOLEAN :
              /\ LocalOnly(neon_read(Cur({}, FALSE), smgr_relpersistence,
                                     b, lfc))
              /\ LocalOnly(neon_prefetch(Cur({}, FALSE), smgr_relpersistence,
                                         b, lfc))
        /\ \A blk \in 0..1 : LocalOnly(neon_writeback(Cur({}, FALSE), blk))
        /\ \A size \in 0..1 :
              LocalOnly(neon_nblocks(Given({}, FALSE, Answers(FALSE, size))))
        /\ \A nblocks \in 0..1 : LocalOnly(neon_truncate(Cur({}, FALSE), nblocks))
        /\ LocalOnly(neon_immedsync(Cur({}, FALSE)))

\* A relation that looks unlogged while its build is in phase 1, with a
\* cached size and a slot in the prefetch ring.
C28_Witness ==
    /\ smgr_relpersistence = "UNLOGGED"
    /\ unlogged_build_phase = "PHASE_1"
    /\ relsize # NotCached
    /\ ring_unused > 0
    /\ ~crashed

----------------------------------------------------------------------------
(* neon_extend *)

IsWallogCall(e) == e.op = "neon_wallog_page"

\* The calls of neon_wallog_page an entry point has made, in order.
WallogCalls(r) == SelectSeq(r.events, IsWallogCall)

\* neon_wallog_page is called with force = true for each block of
\* [before, blk) in ascending order and then without force for blk; where
\* WAL can be written, a full-page image is logged for each gap block
\* before the call for blk.
GapLoggedBeforeBlock(r, before, blk, page, can_write) ==
    LET calls == WallogCalls(r)
        last == CHOOSE i \in DOMAIN r.events :
                    r.events[i] = Event("neon_wallog_page", blk,
                                        PageXLogRecPtrGet(page), FALSE)
    IN  /\ Len(calls) = blk - before + 1
        /\ \A k \in 1..(blk - before) :
              calls[k] = Event("neon_wallog_page", before + k - 1,
                               PageXLogRecPtrGet(page), TRUE)
        /\ calls[Len(calls)] = Event("neon_wallog_page", blk,
                                     PageXLogRecPtrGet(page), FALSE)
        /\ can_write =>
              \A g \in before..(blk - 1) :
                  \E i \in 1..(last - 1) :
                      r.events[i].op = "log_newpage" /\ r.events[i].blk = g

Extended(r, before, blk, page, can_write) ==
    r.result = "done" =>
        /\ r.relsize = blk + 1
        /\ r.relsize >= before
        /\ relsize # NotCached => r.relsize >= relsize
        /\ GapLoggedBeforeBlock(r, before, blk, page, can_write)

----------------------------------------------------------------------------
(* After a disconnect *)

\* The state a record leaves, at the start of the next entry point.
Fresh(s) == Observations({}, FALSE) @@ s

\* The blocks whose request is in flight.
InFlightBlocks ==
    { b \in Blocks : HasSlot(b) /\ SlotOf(b).status = "REQUESTED" }

AfterDisconnect == Fresh(pageserver_disconnect(Cur({}, FALSE)))

\* The call has sent exactly one request, a GetPage request for block b,
\* and has not been left waiting for a response that cannot come.
OneFreshRequest(b, r) ==
    /\ Len(r.sent) = 1
    /\ r.sent[1].blk = b
    /\ ~r.starved

\* The read has returned the page of the last request it sent for b.
ServedFromFreshResponse(b, r) ==
    /\ ~r.starved
    /\ r.result = "page"
    /\ Len(r.sent) >= 1
    /\ r.sent[Len(r.sent)].blk = b
    /\ r.buffer = PageServerAnswer(r.sent[Len(r.sent)])
    /\ r.served.buftag = b

\* C30: after prefetch_on_ps_disconnect no later read or prefetch waits
\* for, or is served from, a request that was sent before the disconnect
\* and had not been answered: the first later prefetch or read of such a
\* block sends exactly one fresh GetPage request, and a read that was
\* waiting when the connection dropped registers the block again and is
\* served from the fresh response.
C30_LostRequestsAreReissued ==
    CanRegister =>
        /\ \A b \in InFlightBlocks :
              /\ OneFreshRequest(b, neon_prefetch(AfterDisconnect,
                                                  "PERMANENT", b, FALSE))
              /\ OneFreshRequest(b, neon_read(AfterDisconnect,
                                              "PERMANENT", b, FALSE))
              /\ ServedFromFreshResponse(b, neon_read(AfterDisconnect,
                                                      "PERMANENT", b, FALSE))
        /\ \A b \in Blocks, fail \in FateSets :
              NeonReadOutcome(b, fail).wait_fails # << >> =>
                  ServedFromFreshResponse(b, NeonReadOutcome(b, fail))

----------------------------------------------------------------------------
(* Allocation of a slot *)

\* C35: at the moment prefetch_register_buffer allocates
\* ring[ring_unused mod CAP] for a new request that slot is UNUSED, so no
\* REQUESTED or RECEIVED slot is ever overwritten, in every reachable
\* state, the first registration after readahead_buffer_resize has copied
\* as many live slots as the new capacity included.
C35_AllocatedSlotIsUnused ==
    \A r \in StepOutcomes : ~r.overwrite

----------------------------------------------------------------------------
(* Flushing *)

\* The requests of the ring indexes below ring_flush have left the output
\* buffer: the requests still in it are the last ones sent.
FlushedBelowRingFlush(s) == s.ring_flush <= s.ring_unused - s.unflushed

\* C37: ring_flush only ever passes over requests for which a transport
\* flush has succeeded: in every reachable state, after
\* readahead_buffer_resize and after the threshold flush of
\* prefetch_register_buffer too, each request with a ring index below
\* ring_flush has been flushed, so whenever prefetch_wait_for blocks in
\* receive for a slot the request of that slot is not sitting unflushed in
\* the output buffer.
C37_RingFlushCoversOnlyFlushed ==
    /\ FlushedBelowRingFlush(Cur({}, FALSE))
    /\ \A r \in StepOutcomes : ~r.recv_unflushed

----------------------------------------------------------------------------
(* Making room in a full ring *)

\* The clean-ups of a full ring, lines 796-829, that the steps possible in
\* the current state make and that compaction did not spare.
ForcedRooms ==
    { m \in UNION { { r.rooms[i] : i \in DOMAIN r.rooms } : r \in StepOutcomes } :
        ~m.compacted /\ ~m.starved }

OldestOf(m) == m.before.ring[m.before.ring_last % m.before.cap]

\* The request of the oldest slot had left the output buffer when its
\* response was waited for, and the response was received before the slot
\* was retired.
FlushedAndReceived(m) ==
    /\ m.received >= 1
    /\ ~m.retired_requested
    /\ \/ m.unflushed <= m.before.ring_unused - m.before.ring_last - 1
       \/ m.before.ring_flush <= m.before.ring_last

RoomMade(m) == m.after.ring_last >= m.before.ring_last + 1

\* C31: when prefetch_register_buffer needs a new slot, the ring is full
\* and compaction does not free space, then if the oldest slot (at
\* ring_last) is REQUESTED the pending requests are flushed and its
\* response is received before it is retired; if it is RECEIVED or
\* TAG_REMAINS it is retired without any transport I/O; in both cases
\* ring_last has advanced by at least 1 before the new slot is allocated.
C31_OldestSlotForcedOut ==
    \A m \in ForcedRooms :
        /\ OldestOf(m).status = "REQUESTED" => FlushedAndReceived(m)
        /\ OldestOf(m).status \in {"RECEIVED", "TAG_REMAINS"} => m.calls = 0
        /\ RoomMade(m)

----------------------------------------------------------------------------
(* Slot access by ring index *)

\* C36: every slot access by ring index, GetPrfSlot(k), uses an index with
\* ring_last <= k < ring_unused, in every reachable execution, the call
\* prefetch_set_unused(k) of prefetch_register_buffer or neon_read_at_lsn
\* included that follows a failed wait for k, when the disconnect handler
\* has already retired the slots and advanced ring_last.
C36_SlotAccessWithinRing ==
    \A r \in StepOutcomes : ~r.bad_access

----------------------------------------------------------------------------
(* Slot counters *)

\* C40: in every state between pipeline operations n_unused +
\* n_requests_inflight + n_responses_buffered = CAP, that is, n_unused
\* counts exactly the ring slots that hold neither a request in flight nor
\* a buffered response; across register, receive, retire, disconnect,
\* compaction and resize.
C40_CountersAddUpToCap ==
    n_unused + n_requests_inflight + n_responses_buffered
        = readahead_buffer_size

----------------------------------------------------------------------------
(* The slot of a finished read *)

\* No slot of the ring carries the block any more, and the tag index has
\* no entry for it.
BlockHasLeft(r, b) ==
    /\ prfh_lookup(r.prf_hash, r.ring, b) = NoEntry
    /\ \A i \in DOMAIN r.ring :
          r.ring[i].buftag = b => r.ring[i].status = "UNUSED"

\* The next read of the block at the same LSN sends a request of its own
\* and is not answered from a slot that was there before.
ReadAgainAsksServer(r, b, lsn, latest) ==
    LET n == neon_read_at_lsn(Fresh(r), b, lsn, latest)
    IN  n.hits = 0 /\ Len(n.sent) >= 1 /\ n.sent[1].blk = b

ReadEndings ==
    { x \in Blocks \X RequestLsns \X BOOLEAN \X FateSets \X BOOLEAN :
        neon_read_at_lsn(Cur(x[4], x[5]), x[1], x[2], x[3]).result
            \in {"page", "error"} }

\* C38: when neon_read_at_lsn ends, whether it returns the page or raises
\* the I/O error carried by a page-server ErrorResponse, the slot it used
\* is UNUSED and its tag is no longer in the index, so a later read of the
\* same block at the same LSN sends a new request instead of finding the
\* buffered error response again.
C38_FinishedReadLeavesNoSlot ==
    CanRegister =>
        \A x \in ReadEndings :
            LET r == neon_read_at_lsn(Cur(x[4], x[5]), x[1], x[2], x[3])
            IN  /\ BlockHasLeft(r, x[1])
                /\ ReadAgainAsksServer(r, x[1], x[2], x[3])

----------------------------------------------------------------------------
(* Request LSNs, last-written LSNs and the WAL flush position *)

\* The outcomes of the entry points of a normal backend that send requests
\* to the page server, over the inputs of NextFlush.
RequestingOutcomes ==
    { neon_prefetch(Cur(fail, FALSE), smgr_relpersistence, b, FALSE) :
        b \in Blocks, fail \in FateSets }
    \cup { neon_read(Cur(fail, FALSE), smgr_relpersistence, b, FALSE) :
             b \in Blocks, fail \in FateSets }
    \cup { neon_nblocks(Given(fail, FALSE, [srv_size |-> size])) :
             size \in 0..1, fail \in FateSets }
    \cup { neon_exists(Given(fail, FALSE, [srv_size |-> size])) :
             size \in -1..0, fail \in FateSets }

\* C33: in a normal backend (not in recovery, not a WAL sender), when
\* neon_get_request_lsn returns lsn the WAL has been flushed at least up to
\* lsn (a flush is forced when lsn is ahead of the flush position), so
\* every Exists, NBlocks and GetPage request such a backend sends carries
\* an LSN at or below the WAL flush position at the time it is sent.
C33_RequestLsnIsFlushed ==
    (~RecoveryInProgress /\ ~am_walsender) =>
        /\ \A b \in LwBlocks :
              neon_get_request_lsn(Cur({}, FALSE), b).lsn
                  <= RequestLsnFlushed(Cur({}, FALSE), b).xlog_flush
        /\ CanRegister =>
              \A r \in RequestingOutcomes : ~r.sent_unflushed

\* C33 witness: block 1 was last written at an LSN the WAL has not been
\* flushed to; a read of it moves the flush position up to the LSN of the
\* request it sends.
C33_Witness ==
    /\ CanRegister
    /\ ~HasSlot(1)
    /\ lwlsn[1] > xlog_flush
    /\ LET r == neon_read(Cur({}, FALSE), smgr_relpersistence, 1, FALSE)
       IN  /\ Len(r.sent) = 1
           /\ r.sent[1].lsn > xlog_flush
           /\ r.xlog_flush = r.sent[1].lsn

\* The outcomes of neon_write, neon_extend and neon_truncate in the
\* current state, over the inputs of NextFlush.
PublishingOutcomes ==
    { neon_write(Given({}, FALSE, WalEnv(FALSE, TRUE)), blk, page) :
        blk \in 0..1, page \in LoggedPages }
    \cup { neon_extend(Given(x[4], FALSE,
                             WalEnv(FALSE, TRUE) @@ [srv_size |-> x[3]]),
                       x[1], x[2]) :
             x \in { y \in (0..1) \X LoggedPages \X (0..1) \X FateSets :
                       y[1] >= KnownSize(y[3]) } }
    \cup { neon_truncate(Cur({}, FALSE), nblocks) : nblocks \in 0..1 }

\* C34: every LSN the adaptor publishes through SetLastWrittenLSNForBlock
\* or SetLastWrittenLSNForRelation in neon_write, neon_extend and
\* neon_truncate is at or below the WAL flush position at the moment it is
\* published (the invariant last-written LSN <= flush LSN that
\* neon_truncate flushes the WAL to uphold).
C34_PublishedLsnIsFlushed ==
    ~crashed => \A r \in PublishingOutcomes : ~r.published_unflushed

\* neon_nblocks and neon_exists of a permanent relation whose size is not
\* cached, called in the current state of the ring: the callers of
\* page_server_request.
SyncOutcomes ==
    IF crashed THEN {}
    ELSE { neon_nblocks([Given(x[1], x[2], [srv_size |-> x[3],
                                            md_nblocks |-> 0]) EXCEPT
                            !.smgr_relpersistence = "PERMANENT",
                            !.relsize = NotCached]) :
             x \in FateSets \X BOOLEAN \X (0..1) }
         \cup { neon_exists([Given(x[1], x[2], [srv_size |-> x[3],
                                                mdexists |-> FALSE]) EXCEPT
                                !.smgr_relpersistence = "PERMANENT",
                                !.relsize = NotCached]) :
                  x \in FateSets \X BOOLEAN \X (-1..0) }

\* What the receive of line 872 found: no prefetch request without its
\* response, nothing left to flush, and the synchronous request the only
\* one on the connection, which the response answers.
SyncReceiveIsAlone(v) ==
    /\ v.ring_receive = v.ring_unused
    /\ v.ring_flush = v.ring_unused
    /\ v.unflushed = 0
    /\ v.pending = << v.req >>
    /\ v.resp = PageServerAnswer(v.req)

C32_WitnessConsumed ==
    /\ ring_receive < ring_unused
    /\ \E r \in SyncOutcomes :
          /\ r.sync_recvs # << >>
          /\ r.sync_recvs[1].nfails = 0
          /\ r.nrecv > 1

\* C39: whenever the unlogged-build phase is NOT_IN_PROGRESS no relation is
\* left impersonating UNLOGGED: the permanent relation a build was started
\* on (the builds in PHASE_1 and PHASE_2) has smgr_relpersistence =
\* PERMANENT again in the state in which the phase is back at
\* NOT_IN_PROGRESS, whether the build was ended, aborted, or met the error
\* at commit or prepare.
C39_NoRelationLeftUnlogged ==
    [][(/\ unlogged_build_phase \in {"PHASE_1", "PHASE_2"}
        /\ unlogged_build_phase' = "NOT_IN_PROGRESS")
       => smgr_relpersistence' = "PERMANENT"]_vars

TypeOK ==
    /\ readahead_buffer_size \in CapSizes
    /\ DOMAIN prf_buffer = 0..(readahead_buffer_size - 1)
    /\ \A i \in DOMAIN prf_buffer :
          prf_buffer[i].status \in {"UNUSED", "REQUESTED", "RECEIVED", "TAG_REMAINS"}

====
